---- MODULE Spec2Model ----
(***************************************************************************)
(* Task management API: the task store with its lifecycle rules, the user  *)
(* store with signup / login / refresh / deactivation, and the auth gate.  *)
(* Every request is a small process that yields at each `await` of its     *)
(* handler; the steps between two awaits are one atomic action.            *)
(***************************************************************************)
EXTENDS Integers, Sequences, FiniteSets, TLC

VARIABLES
  users,    \* the users table: user id -> row
  tasks,    \* the tasks table: task id -> row
  now,      \* the clock read by new Date() and by jwt.verify
  reqs,     \* the requests in flight: slot -> request record
  taskSeq,  \* how many task ids the store has generated
  last      \* the step taken last: operation, caller, target, response sent

vars == <<users, tasks, now, reqs, taskSeq, last>>

----------------------------------------------------------------------------
\* Bounds of the model

MaxTasks == 2      \* task ids ever generated
MaxUsers == 2      \* user ids ever generated
MaxTime  == 30     \* the last day the clock reaches
MaxReq   == 2      \* requests in flight at once in the concurrent specifications
MaxRows  == 25     \* tasks of one account in the pagination specification

Null == -1         \* null / undefined of a nullable column

----------------------------------------------------------------------------
\* src/unnamed/part_003: enums and HTTP status codes

PENDING     == "pending"
IN_PROGRESS == "in_progress"
COMPLETED   == "completed"
TaskStatus  == {PENDING, IN_PROGRESS, COMPLETED}

LOW    == "low"
MEDIUM == "medium"
HIGH   == "high"
TaskPriority == {LOW, MEDIUM, HIGH}

HttpStatus == [OK |-> 200, CREATED |-> 201, BAD_REQUEST |-> 400, UNAUTHORIZED |-> 401,
               FORBIDDEN |-> 403, NOT_FOUND |-> 404, CONFLICT |-> 409,
               UNPROCESSABLE_ENTITY |-> 422, TOO_MANY_REQUESTS |-> 429,
               INTERNAL_SERVER_ERROR |-> 500, SERVICE_UNAVAILABLE |-> 503]

ErrorCodes == [VALIDATION_ERROR |-> "VALIDATION_ERROR",
               AUTHENTICATION_ERROR |-> "AUTHENTICATION_ERROR",
               AUTHORIZATION_ERROR |-> "AUTHORIZATION_ERROR",
               NOT_FOUND |-> "NOT_FOUND",
               DUPLICATE_RESOURCE |-> "DUPLICATE_RESOURCE",
               INTERNAL_ERROR |-> "INTERNAL_ERROR",
               DATABASE_ERROR |-> "DATABASE_ERROR",
               RATE_LIMIT_EXCEEDED |-> "RATE_LIMIT_EXCEEDED"]

----------------------------------------------------------------------------
\* Messages are sequences of words, so that String.includes is computed

Includes(msg, phrase) ==
  \E i \in 1..(Len(msg) - Len(phrase) + 1) : SubSeq(msg, i, i + Len(phrase) - 1) = phrase

LowerWord(w) ==
  CASE w = "Task" -> "task"
    [] w = "User" -> "user"
    [] w = "Invalid" -> "invalid"
    [] w = "Account" -> "account"
    [] w = "Not" -> "not"
    [] w = "Found" -> "found"
    [] OTHER -> w

toLowerCaseMsg(msg) == [i \in DOMAIN msg |-> LowerWord(msg[i])]

----------------------------------------------------------------------------
\* src/unnamed/part_005: typed errors, their factories and the error handler

NoCode == "none"

AppError(message, statusCode, errorCode) ==
  [name |-> "AppError", message |-> message, statusCode |-> statusCode,
   errorCode |-> errorCode, code |-> NoCode]

createNotFoundError(resource) ==
  AppError(<<resource, "not", "found">>, HttpStatus.NOT_FOUND, ErrorCodes.NOT_FOUND)

createAuthenticationError(message) ==
  AppError(message, HttpStatus.UNAUTHORIZED, ErrorCodes.AUTHENTICATION_ERROR)

createDuplicateResourceError(resource) ==
  AppError(resource \o <<"already", "exists">>, HttpStatus.CONFLICT,
           ErrorCodes.DUPLICATE_RESOURCE)

createValidationError(message) ==
  AppError(message, HttpStatus.UNPROCESSABLE_ENTITY, ErrorCodes.VALIDATION_ERROR)

createAuthorizationError(message) ==
  AppError(message, HttpStatus.FORBIDDEN, ErrorCodes.AUTHORIZATION_ERROR)

\* errors that are not AppError: typeorm's QueryFailedError, plain Error
QueryFailedError(message) ==
  [name |-> "QueryFailedError", message |-> message, statusCode |-> Null,
   errorCode |-> NoCode, code |-> NoCode]

PlainError(message) ==
  [name |-> "Error", message |-> message, statusCode |-> Null,
   errorCode |-> NoCode, code |-> NoCode]

\* an error of the driver's socket: no name of its own, a `code`
SystemError(code) ==
  [name |-> "Error", message |-> <<"connect", code>>, statusCode |-> Null,
   errorCode |-> NoCode, code |-> code]

\* the messages PostgreSQL gives for the three constraint violations
UniqueViolationMsg  == <<"duplicate", "key", "value", "violates", "unique", "constraint">>
ForeignKeyMsg       == <<"violates", "foreign", "key", "constraint">>
NotNullViolationMsg == <<"null", "value", "in", "column", "violates", "not-null", "constraint">>

getErrorCodeFromStatus(status) ==
  CASE status = HttpStatus.BAD_REQUEST -> ErrorCodes.VALIDATION_ERROR
    [] status = HttpStatus.UNAUTHORIZED -> ErrorCodes.AUTHENTICATION_ERROR
    [] status = HttpStatus.FORBIDDEN -> ErrorCodes.AUTHORIZATION_ERROR
    [] status = HttpStatus.NOT_FOUND -> ErrorCodes.NOT_FOUND
    [] status = HttpStatus.CONFLICT -> ErrorCodes.DUPLICATE_RESOURCE
    [] status = HttpStatus.UNPROCESSABLE_ENTITY -> ErrorCodes.VALIDATION_ERROR
    [] status = HttpStatus.TOO_MANY_REQUESTS -> ErrorCodes.RATE_LIMIT_EXCEEDED
    [] OTHER -> ErrorCodes.INTERNAL_ERROR

NoData == [none |-> TRUE]

Response(status, success, message, error, data) ==
  [status |-> status, success |-> success, message |-> message, error |-> error,
   data |-> data]

ErrorResponse(status, message, error) == Response(status, FALSE, message, error, NoData)

\* an outermost layer that sends nothing for a thrown error
errorHandlerSilent(error) == Response(0, FALSE, <<>>, NoCode, NoData)

\* errorHandler: the response the outermost layer sends for a thrown error
errorHandler(error) ==
  IF error.name = "QueryFailedError" THEN
    IF Includes(error.message, <<"duplicate", "key", "value">>) THEN
      ErrorResponse(HttpStatus.CONFLICT, <<"Resource", "already", "exists">>,
                    ErrorCodes.DUPLICATE_RESOURCE)
    ELSE IF Includes(error.message, <<"foreign", "key", "constraint">>) THEN
      ErrorResponse(HttpStatus.BAD_REQUEST,
                    <<"Referenced", "resource", "does", "not", "exist">>,
                    ErrorCodes.NOT_FOUND)
    ELSE IF Includes(error.message, <<"not", "null", "constraint">>) THEN
      ErrorResponse(HttpStatus.UNPROCESSABLE_ENTITY,
                    <<"Required", "field", "is", "missing">>, ErrorCodes.VALIDATION_ERROR)
    ELSE
      ErrorResponse(HttpStatus.BAD_REQUEST, <<"Database", "operation", "failed">>,
                    ErrorCodes.DATABASE_ERROR)
  ELSE IF error.name = "TokenExpiredError" THEN
    ErrorResponse(HttpStatus.UNAUTHORIZED, <<"Token", "has", "expired">>,
                  ErrorCodes.AUTHENTICATION_ERROR)
  ELSE IF error.name = "JsonWebTokenError" THEN
    ErrorResponse(HttpStatus.UNAUTHORIZED, <<"Invalid", "token">>,
                  ErrorCodes.AUTHENTICATION_ERROR)
  ELSE IF error.name = "ValidationError" THEN
    ErrorResponse(HttpStatus.UNPROCESSABLE_ENTITY, <<"Validation", "failed">>,
                  ErrorCodes.VALIDATION_ERROR)
  ELSE IF error.name = "CastError" THEN
    ErrorResponse(HttpStatus.BAD_REQUEST, <<"Invalid", "ID", "format">>,
                  ErrorCodes.VALIDATION_ERROR)
  ELSE IF error.code = "ECONNREFUSED" THEN
    ErrorResponse(HttpStatus.SERVICE_UNAVAILABLE, <<"Database", "connection", "failed">>,
                  ErrorCodes.DATABASE_ERROR)
  ELSE IF error.code = "ENOTFOUND" THEN
    ErrorResponse(HttpStatus.SERVICE_UNAVAILABLE, <<"Service", "unavailable">>,
                  ErrorCodes.INTERNAL_ERROR)
  ELSE IF error.statusCode # Null THEN
    ErrorResponse(error.statusCode,
                  IF error.message # <<>> THEN error.message ELSE <<"Request", "failed">>,
                  getErrorCodeFromStatus(error.statusCode))
  ELSE IF error.message # <<>> THEN
    LET m == toLowerCaseMsg(error.message) IN
    IF Includes(m, <<"not", "found">>) THEN
      ErrorResponse(HttpStatus.NOT_FOUND, error.message, ErrorCodes.NOT_FOUND)
    ELSE IF Includes(m, <<"unauthorized">>) THEN
      ErrorResponse(HttpStatus.UNAUTHORIZED, error.message, ErrorCodes.AUTHENTICATION_ERROR)
    ELSE IF Includes(m, <<"forbidden">>) THEN
      ErrorResponse(HttpStatus.FORBIDDEN, error.message, ErrorCodes.AUTHORIZATION_ERROR)
    ELSE IF Includes(m, <<"validation">>) THEN
      ErrorResponse(HttpStatus.UNPROCESSABLE_ENTITY, error.message,
                    ErrorCodes.VALIDATION_ERROR)
    ELSE
      ErrorResponse(HttpStatus.INTERNAL_SERVER_ERROR, error.message,
                    ErrorCodes.INTERNAL_ERROR)
  ELSE
    ErrorResponse(HttpStatus.INTERNAL_SERVER_ERROR, <<"Internal", "server", "error">>,
                  ErrorCodes.INTERNAL_ERROR)

----------------------------------------------------------------------------
\* Objects are functions from property names to values

Has(obj, f) == f \in DOMAIN obj

\* Object.assign(target, source)
ObjectAssign(target, source) ==
  [f \in DOMAIN target \cup DOMAIN source |->
     IF f \in DOMAIN source THEN source[f] ELSE target[f]]

\* obj[f] = v
ObjectSet(obj, f, v) == [g \in DOMAIN obj \cup {f} |-> IF g = f THEN v ELSE obj[g]]

\* a copy that drops nothing
ObjectCopy(obj, f) == obj

\* const { [f]: _, ...rest } = obj
ObjectWithout(obj, f) == [g \in DOMAIN obj \ {f} |-> obj[g]]

----------------------------------------------------------------------------
\* Strings the code inspects are sequences of characters

LowerChars == {"a","b","c","d","e","f","g","h","i","j","k","l","m",
               "n","o","p","q","r","s","t","u","v","w","x","y","z"}
UpperChars == {"A","B","C","D","E","F","G","H","I","J","K","L","M",
               "N","O","P","Q","R","S","T","U","V","W","X","Y","Z"}
DigitChars == {"0","1","2","3","4","5","6","7","8","9"}
SpecialChars == {"@","$","!","%","*","?","&"}

LowerSeq == <<"a","b","c","d","e","f","g","h","i","j","k","l","m",
              "n","o","p","q","r","s","t","u","v","w","x","y","z">>
UpperSeq == <<"A","B","C","D","E","F","G","H","I","J","K","L","M",
              "N","O","P","Q","R","S","T","U","V","W","X","Y","Z">>

LowerChar(c) ==
  IF c \in UpperChars THEN LowerSeq[CHOOSE i \in 1..Len(UpperSeq) : UpperSeq[i] = c] ELSE c

\* a string left in the case it came in
keepCase(s) == s

\* String.prototype.toLowerCase
toLowerCase(s) == [i \in DOMAIN s |-> LowerChar(s[i])]

\* String.prototype.trim
trim(s) ==
  LET keep == {i \in DOMAIN s : s[i] # " "} IN
  IF keep = {} THEN <<>>
  ELSE LET lo == CHOOSE i \in keep : \A j \in keep : i <= j
           hi == CHOOSE i \in keep : \A j \in keep : i >= j
       IN SubSeq(s, lo, hi)

\* String.prototype.startsWith
startsWith(s, prefix) == Len(s) >= Len(prefix) /\ SubSeq(s, 1, Len(prefix)) = prefix

Repeat(c, n) == [i \in 1..n |-> c]

Min(a, b) == IF a <= b THEN a ELSE b

----------------------------------------------------------------------------
\* bcryptjs, as User.hashPassword and User.comparePassword use it

saltRounds == 12
BcryptMaxBytes == 72    \* bcrypt reads no more than the first 72 bytes of a password
BcryptSaltLen == 22
BcryptDigestLen == 31
BcryptHashLen == 7 + BcryptSaltLen + BcryptDigestLen

\* "$2a$12$": version and cost
BcryptPrefix == <<"$", "2", "a", "$", "1", "2", "$">>

\* the random salts bcrypt.hash may draw
Salts == {"salt1", "salt2"}

\* the 31 characters of digest: one symbol that stands for the digest of the
\* salt and of the bytes bcrypt reads, then padding
BcryptDigest(password, salt) ==
  <<ToString(<<salt, SubSeq(password, 1, Min(Len(password), BcryptMaxBytes))>>)>>
    \o Repeat(".", BcryptDigestLen - 1)

\* bcrypt.hash(password, saltRounds) with the salt it drew
bcryptHash(password, salt) ==
  BcryptPrefix \o <<salt>> \o Repeat(".", BcryptSaltLen - 1) \o BcryptDigest(password, salt)

\* bcrypt.compare(candidate, hash): false for a string that is not 60 long,
\* otherwise the candidate hashed under the salt of `hash` must give `hash`
bcryptCompare(candidate, hash) ==
  /\ Len(hash) = BcryptHashLen
  /\ bcryptHash(candidate, hash[Len(BcryptPrefix) + 1]) = hash

----------------------------------------------------------------------------
\* jsonwebtoken, as AuthService and authenticate use it

JWT_SECRET == "your-super-secret-jwt-key-change-this-in-production"
JWT_REFRESH_SECRET == "your-super-secret-refresh-jwt-key-change-this-in-production"

\* token lifetimes in days: '7d' and '30d' (JWT_EXPIRES_IN, JWT_REFRESH_EXPIRES_IN)
JwtExpiresIn == 7
JwtRefreshExpiresIn == 30

Issuer == "task-management-api"
Audience == "task-management-client"

\* jwt.sign(payload, secret, { expiresIn, issuer, audience }); `sig` is the key
\* the signature was made with
jwtSign(payload, secret, expiresIn, issuer, audience, clock) ==
  [userId |-> payload.userId, email |-> payload.email, iat |-> clock,
   exp |-> clock + expiresIn, iss |-> issuer, aud |-> audience, sig |-> secret,
   jwt |-> TRUE]

\* a string that is not a JWT at all
MalformedToken ==
  [userId |-> 0, email |-> <<>>, iat |-> 0, exp |-> 0, iss |-> "", aud |-> "", sig |-> "",
   jwt |-> FALSE]

NoVerifyOptions == <<>>

\* a verification that does not look at the expiry
jwtVerifyIgnoringExpiry(token, secret, options, clock) ==
  IF ~token.jwt THEN "JsonWebTokenError"
  ELSE IF token.sig # secret THEN "JsonWebTokenError"
  ELSE "ok"

\* jwt.verify(token, secret, options): "ok", or the name of the error thrown.
\* Issuer and audience are compared only when the options name them.
jwtVerify(token, secret, options, clock) ==
  IF ~token.jwt THEN "JsonWebTokenError"
  ELSE IF token.sig # secret THEN "JsonWebTokenError"
  ELSE IF clock >= token.exp THEN "TokenExpiredError"
  ELSE IF Has(options, "audience") /\ token.aud # options.audience THEN "JsonWebTokenError"
  ELSE IF Has(options, "issuer") /\ token.iss # options.issuer THEN "JsonWebTokenError"
  ELSE "ok"

----------------------------------------------------------------------------
\* src/unnamed/part_003: the User entity

USER == "user"
ADMIN == "admin"

\* @BeforeInsert @BeforeUpdate hashPassword, with the salt bcrypt draws
\* a hook that hashes whatever the password field holds
hashPasswordAlways(u, salt) ==
  IF Has(u, "password") /\ u.password # <<>>
  THEN [u EXCEPT !.password = bcryptHash(u.password, salt)]
  ELSE u

hashPassword(u, salt) ==
  IF Has(u, "password") /\ u.password # <<>> /\ ~startsWith(u.password, <<"$", "2">>)
  THEN [u EXCEPT !.password = bcryptHash(u.password, salt)]
  ELSE u

\* @BeforeInsert @BeforeUpdate normalizeEmail
normalizeEmail(u) ==
  IF Has(u, "email") /\ u.email # <<>>
  THEN [u EXCEPT !.email = trim(toLowerCase(u.email))]
  ELSE u

\* @BeforeInsert @BeforeUpdate normalizeName
normalizeName(u) ==
  LET a == IF Has(u, "firstName") /\ u.firstName # <<>>
           THEN [u EXCEPT !.firstName = trim(u.firstName)] ELSE u
  IN IF Has(a, "lastName") /\ a.lastName # <<>>
     THEN [a EXCEPT !.lastName = trim(a.lastName)] ELSE a

UserHooks(u, salt) ==
  CHOOSE n \in {normalizeName(e) : e \in {normalizeEmail(h) : h \in {hashPassword(u, salt)}}} :
    TRUE

\* comparePassword
comparePassword(u, candidatePassword) == bcryptCompare(candidatePassword, u.password)

\* updateLastLogin
updateLastLogin(u, clock) == ObjectSet(u, "lastLoginAt", clock)

\* the unique index on users.email
EmailTaken(store, email) == \E i \in DOMAIN store : store[i].email = email

\* Repository<User>.findOne({ where: { email } })
UserFindByEmail(store, email) == {store[i] : i \in {j \in DOMAIN store : store[j].email = email}}

\* the columns a findOne with `select` returns
Select(row, columns) == [f \in columns |-> row[f]]

\* Repository<User>.save of a new entity: the hooks, then INSERT
UserInsertRow(store, e, clock, salt) ==
  LET h == UserHooks(e, salt) IN
  [id |-> Cardinality(DOMAIN store) + 1, email |-> h.email, password |-> h.password,
   firstName |-> h.firstName, lastName |-> h.lastName, role |-> h.role,
   isActive |-> h.isActive, lastLoginAt |-> Null, createdAt |-> clock, updatedAt |-> clock]

\* a table with no unique index: no insert is refused
NoUniqueIndex(store, e, salt) == FALSE

UserInsertFails(store, e, salt) == EmailTaken(store, UserHooks(e, salt).email)

UserInsert(store, e, clock, salt) ==
  LET row == UserInsertRow(store, e, clock, salt) IN (row.id :> row) @@ store

\* Repository<User>.save of a loaded entity: the row is read again and compared
\* with the columns the entity defines; with no difference nothing runs;
\* otherwise the hooks run and the differing columns are written
UserSave(store, e, clock, salt) ==
  LET row == store[e.id] IN
  IF ObjectAssign(row, e) = row THEN store
  ELSE LET h == ObjectAssign(row, UserHooks(e, salt)) IN
       IF h = row THEN store
       ELSE [store EXCEPT ![e.id] = [h EXCEPT !.updatedAt = clock]]

----------------------------------------------------------------------------
\* Requests in flight and the record of the last step

Slots == 1..MaxReq

Idle == [op |-> "idle"]

\* a handler starts in the first free slot; with par = FALSE requests run one at
\* a time
CanStart(r, par) ==
  /\ reqs[r] = Idle
  /\ \A q \in Slots : q < r => reqs[q] # Idle
  /\ ~par => \A q \in Slots : reqs[q] = Idle

\* a one-step handler needs no slot; with par = FALSE it runs between requests
CanRun(par) == par \/ \A q \in Slots : reqs[q] = Idle

NoResp == Response(0, FALSE, <<>>, NoCode, NoData)

\* a step on a stored task or user: `target` is its id
LastStep(op, step, userId, target, resp) ==
  [op |-> op, step |-> step, userId |-> userId, target |-> target, input |-> NoData,
   resp |-> resp]

\* a step that receives a request: `input` is what the client sent
LastTaskRequest(op, step, userId, target, input, resp) ==
  [op |-> op, step |-> step, userId |-> userId, target |-> target, input |-> input,
   resp |-> resp]

LastRequest(op, step, userId, input, resp) ==
  [op |-> op, step |-> step, userId |-> userId, target |-> Null, input |-> input,
   resp |-> resp]

NullText == <<"NULL">>   \* a text column that is NULL

----------------------------------------------------------------------------
\* src/src/routes/authRoutes.ts: the Task entity

\* @BeforeUpdate updateCompletedAt
updateCompletedAt(t, clock) ==
  IF t.status = COMPLETED /\ t.completedAt = Null THEN [t EXCEPT !.completedAt = clock]
  ELSE IF t.status # COMPLETED /\ t.completedAt # Null THEN [t EXCEPT !.completedAt = Null]
  ELSE t

markAsCompleted(t, clock) == [t EXCEPT !.status = COMPLETED, !.completedAt = clock]

markAsInProgress(t) == [t EXCEPT !.status = IN_PROGRESS, !.completedAt = Null]

markAsPending(t) == [t EXCEPT !.status = PENDING, !.completedAt = Null]

\* an INSERT that leaves the new row alone in the table
TaskInsertOnly(store, id, e, clock) ==
  (id :> [id |-> id, title |-> e.title, description |-> e.description,
          status |-> e.status, priority |-> e.priority, dueDate |-> e.dueDate,
          completedAt |-> Null, createdAt |-> clock, updatedAt |-> clock,
          userId |-> e.userId])

\* Repository<Task>.save of a new entity: INSERT. No hook of Task runs before an
\* insert; the columns the entity leaves undefined are stored NULL.
TaskInsert(store, id, e, clock) ==
  (id :> [id |-> id, title |-> e.title, description |-> e.description,
          status |-> e.status, priority |-> e.priority, dueDate |-> e.dueDate,
          completedAt |-> IF Has(e, "completedAt") THEN e.completedAt ELSE Null,
          createdAt |-> IF Has(e, "createdAt") THEN e.createdAt ELSE clock,
          updatedAt |-> clock, userId |-> e.userId]) @@ store

\* an UPDATE that writes the status column alone
TaskSaveStatusOnly(store, e, clock) ==
  IF e.id \notin DOMAIN store THEN store
  ELSE [store EXCEPT ![e.id] = [@ EXCEPT !.status = e.status, !.updatedAt = clock]]

\* Repository<Task>.save of a loaded entity: the row is read again and compared
\* with the entity; with no difference nothing runs; otherwise the @BeforeUpdate
\* hook runs and the differing columns are written (the row becomes the entity).
\* An entity whose row is gone is inserted again under its id.
TaskSave(store, e, clock) ==
  IF e.id \notin DOMAIN store THEN TaskInsert(store, e.id, e, clock)
  ELSE IF e = store[e.id] THEN store
  ELSE LET h == updateCompletedAt(e, clock) IN
       IF h = store[e.id] THEN store
       ELSE [store EXCEPT ![e.id] = [h EXCEPT !.updatedAt = clock]]

\* Repository<Task>.remove
TaskRemove(store, id) == [i \in DOMAIN store \ {id} |-> store[i]]

\* a lookup by id alone, without the userId condition
TaskFindOneAnyOwner(store, id, userId) == {store[i] : i \in {j \in DOMAIN store : j = id}}

\* Repository<Task>.findOne({ where: { id, userId } })
TaskFindOne(store, id, userId) ==
  {store[i] : i \in {j \in DOMAIN store : j = id /\ store[j].userId = userId}}

----------------------------------------------------------------------------
\* src/src/middleware/validation.ts: validate and taskSchemas.update

\* the 422 that validate sends
ValidationFailed ==
  ErrorResponse(HttpStatus.UNPROCESSABLE_ENTITY, <<"Validation", "failed">>,
                ErrorCodes.VALIDATION_ERROR)

taskUpdateSchemaKeys == {"title", "description", "status", "priority", "dueDate"}

\* a validation that lets unknown keys through
allowUnknown(body) == body

\* the converted value: unknown keys stripped, title and description trimmed
taskUpdateSchemaValue(body) ==
  [f \in DOMAIN body \cap taskUpdateSchemaKeys |->
     IF f \in {"title", "description"} THEN trim(body[f]) ELSE body[f]]

taskUpdateSchemaOk(body) ==
  LET v == taskUpdateSchemaValue(body) IN
  /\ DOMAIN v # {}
  /\ Has(v, "title") => Len(v.title) >= 1 /\ Len(v.title) <= 255
  /\ Has(v, "description") => Len(v.description) <= 2000
  /\ Has(v, "status") => v.status \in TaskStatus
  /\ Has(v, "priority") => v.priority \in TaskPriority

\* taskSchemas.filters: the converted query (unknown keys stripped, search
\* trimmed, the defaults filled in) and whether it validates
taskFiltersSchemaKeys ==
  {"status", "priority", "dueDateFrom", "dueDateTo", "search", "page", "limit", "sortBy",
   "sortOrder"}

taskFiltersDefaults == [page |-> 1, limit |-> 10, sortBy |-> "createdAt", sortOrder |-> "DESC"]

taskFiltersSchemaValue(query) ==
  LET given == [f \in DOMAIN query \cap taskFiltersSchemaKeys |->
                  IF f = "search" THEN trim(query[f]) ELSE query[f]]
  IN ObjectAssign(taskFiltersDefaults, given)

taskFiltersSchemaOk(query) ==
  LET v == taskFiltersSchemaValue(query) IN
  /\ Has(v, "status") => v.status \in TaskStatus
  /\ Has(v, "priority") => v.priority \in TaskPriority
  /\ (Has(v, "dueDateFrom") /\ Has(v, "dueDateTo")) => v.dueDateTo >= v.dueDateFrom
  /\ Has(v, "search") => Len(v.search) >= 1 /\ Len(v.search) <= 255
  /\ v.page >= 1
  /\ v.limit >= 1 /\ v.limit <= 100
  /\ v.sortBy \in {"createdAt", "updatedAt", "dueDate", "title", "priority", "status"}
  /\ v.sortOrder \in {"ASC", "DESC"}

----------------------------------------------------------------------------
\* src/unnamed/part_000: TaskService

\* the entity createTask builds from the request
createTaskEntity(userId, taskData) ==
  [title |-> taskData.title,
   description |-> IF Has(taskData, "description") THEN taskData.description ELSE NullText,
   dueDate |-> IF Has(taskData, "dueDate") THEN taskData.dueDate ELSE Null,
   userId |-> userId,
   status |-> IF Has(taskData, "status") THEN taskData.status ELSE PENDING,
   priority |-> IF Has(taskData, "priority") THEN taskData.priority ELSE MEDIUM]

CreatesInFlight == Cardinality({q \in Slots : reqs[q].op = "createTask"})

\* createTask up to its first await: the user lookup
createTask(r, par, userId, taskData) ==
  /\ CanStart(r, par)
  /\ taskSeq + CreatesInFlight < MaxTasks
  /\ IF userId \notin DOMAIN users
     THEN /\ reqs' = reqs
          /\ last' = LastTaskRequest("createTask", "findUser", userId, Null, taskData,
                                     errorHandler(createNotFoundError("User")))
     ELSE /\ reqs' = [reqs EXCEPT ![r] = [op |-> "createTask", userId |-> userId,
                                          body |-> taskData,
                                          task |-> createTaskEntity(userId, taskData)]]
          /\ last' = LastTaskRequest("createTask", "findUser", userId, Null, taskData,
                                     NoResp)
  /\ UNCHANGED <<users, tasks, now, taskSeq>>

\* createTask: the save, and the controller's 201
createTaskSave(r) ==
  /\ reqs[r].op = "createTask"
  /\ LET id == taskSeq + 1
         store == TaskInsert(tasks, id, reqs[r].task, now)
     IN /\ tasks' = store
        /\ taskSeq' = id
        /\ last' = LastTaskRequest("createTask", "save", reqs[r].userId, id, reqs[r].body,
                                   Response(HttpStatus.CREATED, TRUE,
                                            <<"Task", "created", "successfully">>, NoCode,
                                            store[id]))
  /\ reqs' = [reqs EXCEPT ![r] = Idle]
  /\ UNCHANGED <<users, now>>

\* the outcome of getTaskById: the row, or the NotFound error
getTaskByIdFound(store, userId, taskId) == TaskFindOne(store, taskId, userId) # {}

getTaskByIdTask(store, userId, taskId) ==
  CHOOSE t \in TaskFindOne(store, taskId, userId) : TRUE

getTaskByIdResponse(store, userId, taskId) ==
  IF getTaskByIdFound(store, userId, taskId)
  THEN Response(HttpStatus.OK, TRUE, <<"Task", "retrieved", "successfully">>, NoCode,
                getTaskByIdTask(store, userId, taskId))
  ELSE errorHandler(createNotFoundError("Task"))

getTaskById(par, userId, taskId) ==
  /\ CanRun(par)
  /\ last' = LastStep("getTaskById", "find", userId, taskId,
                      getTaskByIdResponse(tasks, userId, taskId))
  /\ UNCHANGED <<users, tasks, now, reqs, taskSeq>>

\* PostgreSQL's LIKE on a text and a pattern: "%" stands for any run of
\* characters, "_" for any one character, "\\" takes the next character as it is
RECURSIVE Like(_, _)
Like(text, pattern) ==
  IF pattern = <<>> THEN text = <<>>
  ELSE IF Head(pattern) = "%"
  THEN Like(text, Tail(pattern)) \/ (text # <<>> /\ Like(Tail(text), pattern))
  ELSE IF Head(pattern) = "_"
  THEN text # <<>> /\ Like(Tail(text), Tail(pattern))
  ELSE IF Head(pattern) = "\\" /\ Len(pattern) >= 2
  THEN text # <<>> /\ Head(text) = pattern[2] /\ Like(Tail(text), Tail(Tail(pattern)))
  ELSE text # <<>> /\ Head(text) = Head(pattern) /\ Like(Tail(text), Tail(pattern))

\* column ILIKE pattern; NULL ILIKE anything is not true
ILike(column, pattern) ==
  column # NullText /\ Like(toLowerCase(column), toLowerCase(pattern))

\* the WHERE clause getTasks builds
getTasksWhere(task, userId, filters) ==
  /\ task.userId = userId
  /\ Has(filters, "status") => task.status = filters.status
  /\ Has(filters, "priority") => task.priority = filters.priority
  /\ Has(filters, "dueDateFrom") => task.dueDate # Null /\ task.dueDate >= filters.dueDateFrom
  /\ Has(filters, "dueDateTo") => task.dueDate # Null /\ task.dueDate <= filters.dueDateTo
  /\ Has(filters, "search") =>
       LET pattern == <<"%">> \o filters.search \o <<"%">> IN
       ILike(task.title, pattern) \/ ILike(task.description, pattern)

\* NULL sorts after every due date
NullsLast == MaxRows + 1

\* the position of a value in ORDER BY ... ASC: timestamps by time with NULL
\* after every value, enums by their declaration order; the order of titles
\* depends on the database's collation and is left open
EnumIndex(v, enum) == CHOOSE i \in DOMAIN enum : enum[i] = v

SortRank(task, sortBy) ==
  IF sortBy = "updatedAt" THEN task.updatedAt
  ELSE IF sortBy = "dueDate" THEN (IF task.dueDate = Null THEN NullsLast ELSE task.dueDate)
  ELSE IF sortBy = "priority" THEN EnumIndex(task.priority, <<LOW, MEDIUM, HIGH>>)
  ELSE IF sortBy = "status" THEN EnumIndex(task.status, <<PENDING, IN_PROGRESS, COMPLETED>>)
  ELSE IF sortBy = "title" THEN 0
  ELSE task.createdAt

\* every sequence ORDER BY may produce from the rows: rows of equal rank come
\* in any order
RECURSIVE OrderBy(_, _, _)
OrderBy(rows, sortBy, sortOrder) ==
  IF rows = {} THEN {<<>>}
  ELSE LET first == {x \in rows : \A y \in rows :
                       IF sortOrder = "ASC" THEN SortRank(x, sortBy) <= SortRank(y, sortBy)
                       ELSE SortRank(x, sortBy) >= SortRank(y, sortBy)}
       IN UNION {{<<x>> \o rest : rest \in OrderBy(rows \ {x}, sortBy, sortOrder)} :
                 x \in first}

\* skip(skip).take(limit)
SkipTake(rows, skip, limit) ==
  IF skip >= Len(rows) THEN <<>> ELSE SubSeq(rows, skip + 1, Min(skip + limit, Len(rows)))

\* a division that rounds down
FloorDiv(total, limit) == total \div limit

\* Math.ceil(total / limit)
CeilDiv(total, limit) == (total + limit - 1) \div limit

\* the rows of the store that the query selects
getTasksMatching(store, userId, filters) ==
  {store[i] : i \in {j \in DOMAIN store : getTasksWhere(store[j], userId, filters)}}

\* getTasks: every result getManyAndCount may give, with the metadata
getTasksResults(store, userId, filters) ==
  LET matching == getTasksMatching(store, userId, filters)
      total == Cardinality(matching)
  IN {[tasks |-> SkipTake(rows, (filters.page - 1) * filters.limit, filters.limit),
       meta |-> [page |-> filters.page, limit |-> filters.limit, total |-> total,
                 totalPages |-> CeilDiv(total, filters.limit)]] :
        rows \in OrderBy(matching, filters.sortBy, filters.sortOrder)}

\* GET /tasks: validate(taskSchemas.filters, 'query'), then getTasks
getTasks(par, userId, query) ==
  /\ CanRun(par)
  /\ IF ~taskFiltersSchemaOk(query)
     THEN last' = LastTaskRequest("getTasks", "validate", userId, Null, query, ValidationFailed)
     ELSE \E result \in getTasksResults(tasks, userId, taskFiltersSchemaValue(query)) :
            last' = LastTaskRequest("getTasks", "query", userId, Null, query,
                                    Response(HttpStatus.OK, TRUE,
                                             <<"Tasks", "retrieved", "successfully">>,
                                             NoCode, result))
  /\ UNCHANGED <<users, tasks, now, reqs, taskSeq>>

\* what updateTask does to the loaded entity before it saves
applyUpdate(task, updateData, clock) ==
  LET t == ObjectAssign(task, updateData) IN
  IF Has(updateData, "status")
  THEN IF updateData.status = COMPLETED THEN markAsCompleted(t, clock)
       ELSE IF updateData.status = IN_PROGRESS THEN markAsInProgress(t)
       ELSE IF updateData.status = PENDING THEN markAsPending(t)
       ELSE t
  ELSE t

\* PUT /tasks/:id up to the save: validate(taskSchemas.update), then updateTask:
\* getTaskById, Object.assign, the status logic
updateTask(r, par, userId, taskId, body) ==
  /\ CanStart(r, par)
  /\ IF ~taskUpdateSchemaOk(body)
     THEN /\ reqs' = reqs
          /\ last' = LastTaskRequest("updateTask", "validate", userId, taskId, body,
                                     ValidationFailed)
     ELSE LET updateData == taskUpdateSchemaValue(body) IN
          IF getTaskByIdFound(tasks, userId, taskId)
          THEN /\ reqs' = [reqs EXCEPT ![r] =
                             [op |-> "updateTask", userId |-> userId, body |-> body,
                              task |-> applyUpdate(getTaskByIdTask(tasks, userId, taskId),
                                                   updateData, now)]]
               /\ last' = LastTaskRequest("updateTask", "load", userId, taskId, body, NoResp)
          ELSE /\ reqs' = reqs
               /\ last' = LastTaskRequest("updateTask", "load", userId, taskId, body,
                                          errorHandler(createNotFoundError("Task")))
  /\ UNCHANGED <<users, tasks, now, taskSeq>>

updateTaskSave(r) ==
  /\ reqs[r].op = "updateTask"
  /\ LET store == TaskSave(tasks, reqs[r].task, now)
         id == reqs[r].task.id
     IN /\ tasks' = store
        /\ last' = LastTaskRequest("updateTask", "save", reqs[r].userId, id, reqs[r].body,
                            Response(HttpStatus.OK, TRUE,
                                     <<"Task", "updated", "successfully">>, NoCode, store[id]))
  /\ reqs' = [reqs EXCEPT ![r] = Idle]
  /\ UNCHANGED <<users, now, taskSeq>>

\* Repository<Task>.save as the two queries it is: the SELECT that loads the row
\* (the databaseEntity), and the UPDATE that writes the columns in which the
\* entity, after the @BeforeUpdate hook, differs from that databaseEntity
TaskColumns == {"title", "description", "status", "priority", "dueDate", "completedAt",
                "userId"}

TaskSaveSelect(store, e) == IF e.id \in DOMAIN store THEN store[e.id] ELSE NoData

TaskSaveEntity(e, databaseEntity, clock) ==
  IF \A c \in TaskColumns : e[c] = databaseEntity[c] THEN e
  ELSE updateCompletedAt(e, clock)

TaskSaveChanged(e, databaseEntity, clock) ==
  {c \in TaskColumns : TaskSaveEntity(e, databaseEntity, clock)[c] # databaseEntity[c]}

TaskSaveUpdate(store, e, databaseEntity, clock) ==
  LET h == TaskSaveEntity(e, databaseEntity, clock)
      changed == TaskSaveChanged(e, databaseEntity, clock) IN
  IF changed = {} \/ e.id \notin DOMAIN store THEN store
  ELSE [store EXCEPT ![e.id] =
          [c \in DOMAIN @ |-> IF c \in changed THEN h[c]
                              ELSE IF c = "updatedAt" THEN clock ELSE @[c]]]

\* updateTask: the SELECT of its save
updateTaskSaveSelect(r) ==
  /\ reqs[r].op = "updateTask"
  /\ ~Has(reqs[r], "databaseEntity")
  /\ reqs[r].task.id \in DOMAIN tasks
  /\ reqs' = [reqs EXCEPT ![r] =
                [op |-> "updateTask", userId |-> reqs[r].userId, body |-> reqs[r].body,
                 task |-> reqs[r].task,
                 databaseEntity |-> TaskSaveSelect(tasks, reqs[r].task)]]
  /\ last' = LastTaskRequest("updateTask", "select", reqs[r].userId, reqs[r].task.id,
                             reqs[r].body, NoResp)
  /\ UNCHANGED <<users, tasks, now, taskSeq>>

\* updateTask: the UPDATE of its save, and the controller's 200 with the entity
updateTaskSaveUpdate(r) ==
  /\ reqs[r].op = "updateTask"
  /\ Has(reqs[r], "databaseEntity")
  /\ LET q == reqs[r]
         h == TaskSaveEntity(q.task, q.databaseEntity, now)
         saved == IF TaskSaveChanged(q.task, q.databaseEntity, now) = {} THEN h
                  ELSE [h EXCEPT !.updatedAt = now]
     IN /\ tasks' = TaskSaveUpdate(tasks, q.task, q.databaseEntity, now)
        /\ last' = LastTaskRequest("updateTask", "save", q.userId, q.task.id, q.body,
                                   Response(HttpStatus.OK, TRUE,
                                            <<"Task", "updated", "successfully">>, NoCode,
                                            saved))
  /\ reqs' = [reqs EXCEPT ![r] = Idle]
  /\ UNCHANGED <<users, now, taskSeq>>

\* a check that lets every task through
neverCompleted(task) == FALSE

\* completeTask: task.status === TaskStatus.COMPLETED
alreadyCompleted(task) == task.status = COMPLETED

\* completeTask up to the save
completeTask(r, par, userId, taskId) ==
  /\ CanStart(r, par)
  /\ IF ~getTaskByIdFound(tasks, userId, taskId)
     THEN /\ reqs' = reqs
          /\ last' = LastStep("completeTask", "load", userId, taskId,
                              errorHandler(createNotFoundError("Task")))
     ELSE IF alreadyCompleted(getTaskByIdTask(tasks, userId, taskId))
     THEN /\ reqs' = reqs
          /\ last' = LastStep("completeTask", "load", userId, taskId,
                              errorHandler(AppError(<<"Task", "is", "already", "completed">>,
                                                    HttpStatus.BAD_REQUEST,
                                                    ErrorCodes.INTERNAL_ERROR)))
     ELSE /\ reqs' = [reqs EXCEPT ![r] =
                        [op |-> "completeTask", userId |-> userId,
                         task |-> markAsCompleted(getTaskByIdTask(tasks, userId, taskId),
                                                  now)]]
          /\ last' = LastStep("completeTask", "load", userId, taskId, NoResp)
  /\ UNCHANGED <<users, tasks, now, taskSeq>>

completeTaskSave(r) ==
  /\ reqs[r].op = "completeTask"
  /\ LET store == TaskSave(tasks, reqs[r].task, now)
         id == reqs[r].task.id
     IN /\ tasks' = store
        /\ last' = LastStep("completeTask", "save", reqs[r].userId, id,
                            Response(HttpStatus.OK, TRUE,
                                     <<"Task", "marked", "as", "complete">>, NoCode, store[id]))
  /\ reqs' = [reqs EXCEPT ![r] = Idle]
  /\ UNCHANGED <<users, now, taskSeq>>

\* deleteTask up to the remove
deleteTask(r, par, userId, taskId) ==
  /\ CanStart(r, par)
  /\ IF getTaskByIdFound(tasks, userId, taskId)
     THEN /\ reqs' = [reqs EXCEPT ![r] =
                        [op |-> "deleteTask", userId |-> userId,
                         task |-> getTaskByIdTask(tasks, userId, taskId)]]
          /\ last' = LastStep("deleteTask", "load", userId, taskId, NoResp)
     ELSE /\ reqs' = reqs
          /\ last' = LastStep("deleteTask", "load", userId, taskId,
                              errorHandler(createNotFoundError("Task")))
  /\ UNCHANGED <<users, tasks, now, taskSeq>>

deleteTaskRemove(r) ==
  /\ reqs[r].op = "deleteTask"
  /\ tasks' = TaskRemove(tasks, reqs[r].task.id)
  /\ last' = LastStep("deleteTask", "remove", reqs[r].userId, reqs[r].task.id,
                      Response(HttpStatus.OK, TRUE, <<"Task", "deleted", "successfully">>,
                               NoCode, NoData))
  /\ reqs' = [reqs EXCEPT ![r] = Idle]
  /\ UNCHANGED <<users, now, taskSeq>>

\* bulkUpdateStatus: the request arrives; an empty list returns at once
BulkResult(updated, failed) ==
  Response(0, TRUE, <<>>, NoCode, [updated |-> updated, failed |-> failed])

bulkUpdateStatus(r, par, userId, taskIds, status) ==
  /\ CanStart(r, par)
  /\ IF taskIds = <<>>
     THEN /\ reqs' = reqs
          /\ last' = LastStep("bulkUpdateStatus", "done", userId, Null, BulkResult(0, <<>>))
     ELSE /\ reqs' = [reqs EXCEPT ![r] =
                        [op |-> "bulkUpdateStatus", pc |-> "load", userId |-> userId,
                         taskIds |-> taskIds, i |-> 1, status |-> status,
                         updated |-> 0, failed |-> <<>>, task |-> NoData]]
          /\ last' = LastStep("bulkUpdateStatus", "start", userId, Null, NoResp)
  /\ UNCHANGED <<users, tasks, now, taskSeq>>

\* a loop that returns after its first item
BulkStopAfterOne(r, q, updated, failed) ==
  /\ reqs' = [reqs EXCEPT ![r] = Idle]
  /\ last' = LastStep("bulkUpdateStatus", "done", q.userId, q.taskIds[q.i],
                      BulkResult(updated, failed))

\* the loop moves to the next id, or returns { updated, failed } after the last
BulkAdvance(r, q, updated, failed) ==
  IF q.i = Len(q.taskIds)
  THEN /\ reqs' = [reqs EXCEPT ![r] = Idle]
       /\ last' = LastStep("bulkUpdateStatus", "done", q.userId, q.taskIds[q.i],
                           BulkResult(updated, failed))
  ELSE /\ reqs' = [reqs EXCEPT ![r] = [q EXCEPT !.pc = "load", !.i = q.i + 1,
                                        !.updated = updated, !.failed = failed,
                                        !.task = NoData]]
       /\ last' = LastStep("bulkUpdateStatus", "next", q.userId, q.taskIds[q.i], NoResp)

\* one item of the loop: updateTask up to its save; its NotFound is caught
bulkUpdateStatusLoad(r) ==
  /\ reqs[r].op = "bulkUpdateStatus"
  /\ reqs[r].pc = "load"
  /\ LET q == reqs[r]
         id == q.taskIds[q.i]
     IN IF getTaskByIdFound(tasks, q.userId, id)
        THEN /\ reqs' = [reqs EXCEPT ![r] =
                           [q EXCEPT !.pc = "save",
                                     !.task = applyUpdate(getTaskByIdTask(tasks, q.userId, id),
                                                          [status |-> q.status], now)]]
             /\ last' = LastStep("bulkUpdateStatus", "load", q.userId, id, NoResp)
        ELSE BulkAdvance(r, q, q.updated, Append(q.failed, id))
  /\ UNCHANGED <<users, tasks, now, taskSeq>>

bulkUpdateStatusSave(r) ==
  /\ reqs[r].op = "bulkUpdateStatus"
  /\ reqs[r].pc = "save"
  /\ tasks' = TaskSave(tasks, reqs[r].task, now)
  /\ BulkAdvance(r, reqs[r], reqs[r].updated + 1, reqs[r].failed)
  /\ UNCHANGED <<users, now, taskSeq>>

\* bulkDeleteTasks: the request arrives; an empty list returns at once
BulkDeleteResult(deleted, failed) ==
  Response(0, TRUE, <<>>, NoCode, [deleted |-> deleted, failed |-> failed])

bulkDeleteTasks(r, par, userId, taskIds) ==
  /\ CanStart(r, par)
  /\ IF taskIds = <<>>
     THEN /\ reqs' = reqs
          /\ last' = LastStep("bulkDeleteTasks", "done", userId, Null, BulkDeleteResult(0, <<>>))
     ELSE /\ reqs' = [reqs EXCEPT ![r] =
                        [op |-> "bulkDeleteTasks", pc |-> "load", userId |-> userId,
                         taskIds |-> taskIds, i |-> 1,
                         deleted |-> 0, failed |-> <<>>, task |-> NoData]]
          /\ last' = LastStep("bulkDeleteTasks", "start", userId, Null, NoResp)
  /\ UNCHANGED <<users, tasks, now, taskSeq>>

\* the loop moves to the next id, or returns { deleted, failed } after the last
BulkDeleteAdvance(r, q, deleted, failed) ==
  IF q.i = Len(q.taskIds)
  THEN /\ reqs' = [reqs EXCEPT ![r] = Idle]
       /\ last' = LastStep("bulkDeleteTasks", "done", q.userId, q.taskIds[q.i],
                           BulkDeleteResult(deleted, failed))
  ELSE /\ reqs' = [reqs EXCEPT ![r] = [q EXCEPT !.pc = "load", !.i = q.i + 1,
                                        !.deleted = deleted, !.failed = failed,
                                        !.task = NoData]]
       /\ last' = LastStep("bulkDeleteTasks", "next", q.userId, q.taskIds[q.i], NoResp)

\* one item of the loop: deleteTask up to its remove; its NotFound is caught
bulkDeleteTasksLoad(r) ==
  /\ reqs[r].op = "bulkDeleteTasks"
  /\ reqs[r].pc = "load"
  /\ LET q == reqs[r]
         id == q.taskIds[q.i]
     IN IF getTaskByIdFound(tasks, q.userId, id)
        THEN /\ reqs' = [reqs EXCEPT ![r] =
                           [q EXCEPT !.pc = "remove",
                                     !.task = getTaskByIdTask(tasks, q.userId, id)]]
             /\ last' = LastStep("bulkDeleteTasks", "load", q.userId, id, NoResp)
        ELSE BulkDeleteAdvance(r, q, q.deleted, Append(q.failed, id))
  /\ UNCHANGED <<users, tasks, now, taskSeq>>

bulkDeleteTasksRemove(r) ==
  /\ reqs[r].op = "bulkDeleteTasks"
  /\ reqs[r].pc = "remove"
  /\ tasks' = TaskRemove(tasks, reqs[r].task.id)
  /\ BulkDeleteAdvance(r, reqs[r], reqs[r].deleted + 1, reqs[r].failed)
  /\ UNCHANGED <<users, now, taskSeq>>

----------------------------------------------------------------------------
\* src/src/middleware/validation.ts: authSchemas

\* Joi.string().email(): one "@" with something on both sides
IsEmail(s) ==
  /\ Cardinality({i \in DOMAIN s : s[i] = "@"}) = 1
  /\ Len(s) >= 3 /\ s[1] # "@" /\ s[Len(s)] # "@"
  /\ \A i \in DOMAIN s : s[i] # " "

\* authSchemas.signup.password: min 8, max 128, and the pattern
\* /^(?=.*[a-z])(?=.*[A-Z])(?=.*\d)(?=.*[@$!%*?&])[A-Za-z\d@$!%*?&]/
PasswordPattern(p) ==
  /\ \E i \in DOMAIN p : p[i] \in LowerChars
  /\ \E i \in DOMAIN p : p[i] \in UpperChars
  /\ \E i \in DOMAIN p : p[i] \in DigitChars
  /\ \E i \in DOMAIN p : p[i] \in SpecialChars
  /\ Len(p) >= 1 /\ p[1] \in LowerChars \cup UpperChars \cup DigitChars \cup SpecialChars

SignupPasswordOk(p) == Len(p) >= 8 /\ Len(p) <= 128 /\ PasswordPattern(p)

\* firstName / lastName: trimmed, 1..100 characters of /^[a-zA-Z\s'-]+$/
NameOk(n) ==
  /\ Len(n) >= 1 /\ Len(n) <= 100
  /\ \A i \in DOMAIN n : n[i] \in LowerChars \cup UpperChars \cup {" ", "'", "-"}

\* authSchemas.signup: the converted value (email lowercased and trimmed, names
\* trimmed) and whether it validates
signupSchemaValue(body) ==
  [email |-> trim(toLowerCase(body.email)), password |-> body.password,
   firstName |-> trim(body.firstName), lastName |-> trim(body.lastName)]

signupSchemaOk(body) ==
  LET v == signupSchemaValue(body) IN
  /\ IsEmail(v.email) /\ Len(v.email) <= 255
  /\ SignupPasswordOk(v.password)
  /\ NameOk(v.firstName) /\ NameOk(v.lastName)

\* authSchemas.login
loginSchemaValue(body) ==
  [email |-> trim(toLowerCase(body.email)), password |-> body.password]

loginSchemaOk(body) ==
  LET v == loginSchemaValue(body) IN IsEmail(v.email) /\ Len(v.password) >= 1

\* updateProfileSchema (src/unnamed/part_002): unknown keys are stripped
updateProfileSchemaValue(body) ==
  [f \in DOMAIN body \cap {"firstName", "lastName"} |-> trim(body[f])]

updateProfileSchemaOk(body) ==
  LET v == updateProfileSchemaValue(body) IN
  /\ DOMAIN v # {}
  /\ \A f \in DOMAIN v : NameOk(v[f])

----------------------------------------------------------------------------
\* src/src/services/AuthService.ts

generateAccessToken(user, clock) ==
  jwtSign([userId |-> user.id, email |-> user.email], JWT_SECRET, JwtExpiresIn,
          Issuer, Audience, clock)

\* a refresh token signed with the access-token key
generateRefreshTokenWithAccessKey(user, clock) ==
  jwtSign([userId |-> user.id, email |-> user.email], JWT_SECRET,
          JwtRefreshExpiresIn, Issuer, Audience, clock)

generateRefreshToken(user, clock) ==
  jwtSign([userId |-> user.id, email |-> user.email], JWT_REFRESH_SECRET,
          JwtRefreshExpiresIn, Issuer, Audience, clock)

\* the entity signup creates
signupEntity(value) ==
  [email |-> toLowerCase(value.email), password |-> value.password,
   firstName |-> value.firstName, lastName |-> value.lastName,
   role |-> USER, isActive |-> TRUE]

\* the { user, token, refreshToken } of signup and login
AuthResponse(user, token, refreshToken) ==
  [user |-> ObjectWithout(user, "password"), token |-> token, refreshToken |-> refreshToken]

\* POST /auth/signup up to the INSERT: validate, then the existence check
signup(r, par, body) ==
  /\ CanStart(r, par)
  /\ Cardinality(DOMAIN users) + Cardinality({q \in Slots : reqs[q].op = "signup"
                                               /\ reqs[q].pc = "insert"}) < MaxUsers
  /\ IF ~signupSchemaOk(body)
     THEN /\ reqs' = reqs
          /\ last' = LastRequest("signup", "validate", Null, body, ValidationFailed)
     ELSE LET value == signupSchemaValue(body) IN
          IF UserFindByEmail(users, toLowerCase(value.email)) # {}
          THEN /\ reqs' = reqs
               /\ last' = LastRequest("signup", "check", Null, body,
                                   errorHandler(createDuplicateResourceError(
                                     <<"User", "with", "this", "email">>)))
          ELSE /\ reqs' = [reqs EXCEPT ![r] = [op |-> "signup", pc |-> "insert",
                                               body |-> body, user |-> signupEntity(value)]]
               /\ last' = LastRequest("signup", "check", Null, body, NoResp)
  /\ UNCHANGED <<users, tasks, now, taskSeq>>

\* signup: the first save (INSERT; the unique index may refuse it), the tokens,
\* updateLastLogin
signupInsert(r) ==
  /\ reqs[r].op = "signup"
  /\ reqs[r].pc = "insert"
  /\ \E salt \in Salts :
       LET q == reqs[r] IN
       IF UserInsertFails(users, q.user, salt)
       THEN /\ users' = users
            /\ reqs' = [reqs EXCEPT ![r] = Idle]
            /\ last' = LastRequest("signup", "insert", Null, q.body,
                                errorHandler(QueryFailedError(UniqueViolationMsg)))
       ELSE LET savedUser == UserInsertRow(users, q.user, now, salt) IN
            /\ users' = UserInsert(users, q.user, now, salt)
            /\ reqs' = [reqs EXCEPT ![r] =
                          [op |-> "signup", pc |-> "save", body |-> q.body,
                           user |-> updateLastLogin(savedUser, now),
                           token |-> generateAccessToken(savedUser, now),
                           refreshToken |-> generateRefreshToken(savedUser, now)]]
            /\ last' = LastRequest("signup", "insert", savedUser.id, q.body, NoResp)
  /\ UNCHANGED <<tasks, now, taskSeq>>

\* signup: the second save, and the controller's 201
signupSave(r) ==
  /\ reqs[r].op = "signup"
  /\ reqs[r].pc = "save"
  /\ \E salt \in Salts :
       LET q == reqs[r] IN
       /\ users' = UserSave(users, q.user, now, salt)
       /\ last' = LastRequest("signup", "save", q.user.id, q.body,
                           Response(HttpStatus.CREATED, TRUE,
                                    <<"User", "registered", "successfully">>, NoCode,
                                    AuthResponse(q.user, q.token, q.refreshToken)))
  /\ reqs' = [reqs EXCEPT ![r] = Idle]
  /\ UNCHANGED <<tasks, now, taskSeq>>

LoginColumns == {"id", "email", "password", "firstName", "lastName", "role", "isActive",
                 "createdAt", "updatedAt"}

\* nothing thrown
NoError == [name |-> "none"]

\* login, from the findOne to the password check: the error it throws, or NoError
\* when the credentials pass
loginError(store, value) ==
  LET found == UserFindByEmail(store, toLowerCase(value.email)) IN
  IF found = {}
  THEN createAuthenticationError(<<"Invalid", "email", "or", "password">>)
  ELSE LET user == Select(CHOOSE u \in found : TRUE, LoginColumns) IN
       IF ~user.isActive
       THEN createAuthenticationError(<<"Account", "is", "deactivated">>)
       ELSE IF ~comparePassword(user, value.password)
       THEN createAuthenticationError(<<"Invalid", "email", "or", "password">>)
       ELSE NoError

\* what the client receives when login throws
loginRefusal(store, value) == errorHandler(loginError(store, value))

\* POST /auth/login up to the save: validate, findOne, the checks, the tokens
login(r, par, body) ==
  /\ CanStart(r, par)
  /\ IF ~loginSchemaOk(body)
     THEN /\ reqs' = reqs
          /\ last' = LastRequest("login", "validate", Null, body, ValidationFailed)
     ELSE LET value == loginSchemaValue(body)
              found == UserFindByEmail(users, toLowerCase(value.email))
              foundId == IF found = {} THEN Null ELSE (CHOOSE u \in found : TRUE).id
          IN IF loginError(users, value) # NoError
             THEN /\ reqs' = reqs
                  /\ last' = LastRequest("login", "load", foundId, body,
                                         loginRefusal(users, value))
             ELSE LET user == Select(CHOOSE u \in found : TRUE, LoginColumns) IN
                  /\ reqs' = [reqs EXCEPT ![r] =
                                [op |-> "login", pc |-> "save", body |-> body,
                                 user |-> updateLastLogin(user, now),
                                 token |-> generateAccessToken(user, now),
                                 refreshToken |-> generateRefreshToken(user, now)]]
                  /\ last' = LastRequest("login", "load", user.id, body, NoResp)
  /\ UNCHANGED <<users, tasks, now, taskSeq>>

\* login: the save, and the controller's 200
loginSave(r) ==
  /\ reqs[r].op = "login"
  /\ \E salt \in Salts :
       LET q == reqs[r] IN
       /\ users' = UserSave(users, q.user, now, salt)
       /\ last' = LastRequest("login", "save", q.user.id, q.body,
                           Response(HttpStatus.OK, TRUE, <<"Login", "successful">>, NoCode,
                                    AuthResponse(q.user, q.token, q.refreshToken)))
  /\ reqs' = [reqs EXCEPT ![r] = Idle]
  /\ UNCHANGED <<tasks, now, taskSeq>>

\* Repository<User>.findOne({ where: { id } })
UserFindById(store, id) == {store[i] : i \in {j \in DOMAIN store : j = id}}

\* refreshToken: what it returns or the error it throws (every error inside the
\* try block becomes 'Invalid refresh token')
refreshTokenOk(store, token, clock) ==
  /\ jwtVerify(token, JWT_REFRESH_SECRET, NoVerifyOptions, clock) = "ok"
  /\ \E u \in UserFindById(store, token.userId) : u.isActive

refreshTokenResponse(store, token, clock) ==
  IF refreshTokenOk(store, token, clock)
  THEN LET user == CHOOSE u \in UserFindById(store, token.userId) : TRUE IN
       Response(HttpStatus.OK, TRUE, <<"Token", "refreshed", "successfully">>, NoCode,
                [token |-> generateAccessToken(user, clock),
                 refreshToken |-> generateRefreshToken(user, clock)])
  ELSE errorHandler(createAuthenticationError(<<"Invalid", "refresh", "token">>))

\* POST /auth/refresh
refreshToken(par, token) ==
  /\ CanRun(par)
  /\ last' = LastRequest("refreshToken", "verify", token.userId, token,
                      refreshTokenResponse(users, token, now))
  /\ UNCHANGED <<users, tasks, now, reqs, taskSeq>>

\* verifyToken: the user it resolves, or 'Invalid token'
verifyTokenOk(store, token, clock) ==
  /\ jwtVerify(token, JWT_SECRET, NoVerifyOptions, clock) = "ok"
  /\ \E u \in UserFindById(store, token.userId) : u.isActive

----------------------------------------------------------------------------
\* src/src/middleware/validation.ts: authenticate, the auth gate

\* the authorization header: <<>> when missing, <<scheme>> when nothing follows
\* the scheme, <<scheme, token>> otherwise
NoHeader == <<>>

AuthColumns == {"id", "email", "firstName", "lastName", "role", "isActive",
                "createdAt", "updatedAt"}

Unauthorized(message) ==
  ErrorResponse(HttpStatus.UNAUTHORIZED, message, ErrorCodes.AUTHENTICATION_ERROR)

\* the response authenticate sends, or NoResp when it calls next()
authenticateResponse(store, header, clock, dbUp) ==
  IF header = NoHeader \/ header[1] # "Bearer"
  THEN Unauthorized(<<"Access", "token", "is", "required">>)
  ELSE IF Len(header) < 2
  THEN Unauthorized(<<"Access", "token", "is", "required">>)
  ELSE LET token == header[2]
           verdict == jwtVerify(token, JWT_SECRET, NoVerifyOptions, clock)
       IN IF verdict = "TokenExpiredError"
          THEN Unauthorized(<<"Token", "has", "expired">>)
          ELSE IF verdict = "JsonWebTokenError"
          THEN Unauthorized(<<"Invalid", "token", "format">>)
          ELSE IF ~dbUp
          THEN ErrorResponse(HttpStatus.INTERNAL_SERVER_ERROR,
                             <<"Authentication", "failed">>,
                             ErrorCodes.AUTHENTICATION_ERROR)
          ELSE IF UserFindById(store, token.userId) = {}
          THEN Unauthorized(<<"User", "not", "found">>)
          ELSE IF ~(CHOOSE u \in UserFindById(store, token.userId) : TRUE).isActive
          THEN Unauthorized(<<"User", "account", "is", "deactivated">>)
          ELSE NoResp

\* req.user when authenticate calls next()
authenticateUser(store, header) ==
  Select(CHOOSE u \in UserFindById(store, header[2].userId) : TRUE, AuthColumns)

\* a request to a /users/me route: the gate, then (for PUT) validate; the
\* handler's first query is the next step
authenticate(r, par, header, route, body, dbUp) ==
  /\ CanStart(r, par)
  /\ LET resp == authenticateResponse(users, header, now, dbUp) IN
     IF resp # NoResp
     THEN /\ reqs' = reqs
          /\ last' = LastRequest("authenticate", route, Null, [header |-> header], resp)
     ELSE LET user == authenticateUser(users, header) IN
          IF route = "updateProfile" /\ ~updateProfileSchemaOk(body)
          THEN /\ reqs' = reqs
               /\ last' = LastRequest("authenticate", route, user.id, [header |-> header],
                                      ValidationFailed)
          ELSE /\ reqs' = [reqs EXCEPT ![r] =
                             [op |-> route, pc |-> "load", user |-> user, raw |-> body,
                              body |-> IF route = "updateProfile"
                                       THEN updateProfileSchemaValue(body) ELSE NoData]]
               /\ last' = LastRequest("authenticate", route, user.id, [header |-> header],
                                      NoResp)
  /\ UNCHANGED <<users, tasks, now, taskSeq>>

ProfileColumns == {"id", "email", "firstName", "lastName", "role", "isActive",
                   "lastLoginAt", "createdAt", "updatedAt"}

\* GET /users/me: getUserProfile
getProfile(r) ==
  /\ reqs[r].op = "getProfile"
  /\ LET id == reqs[r].user.id IN
     last' = LastStep("getProfile", "find", id, id,
               IF UserFindById(users, id) = {}
               THEN errorHandler(createNotFoundError("User"))
               ELSE Response(HttpStatus.OK, TRUE,
                             <<"User", "profile", "retrieved", "successfully">>, NoCode,
                             Select(CHOOSE u \in UserFindById(users, id) : TRUE,
                                    ProfileColumns)))
  /\ reqs' = [reqs EXCEPT ![r] = Idle]
  /\ UNCHANGED <<users, tasks, now, taskSeq>>

\* PUT /users/me: updateProfile up to the save
updateProfile(r) ==
  /\ reqs[r].op = "updateProfile"
  /\ reqs[r].pc = "load"
  /\ LET id == reqs[r].user.id IN
     IF UserFindById(users, id) = {}
     THEN /\ reqs' = [reqs EXCEPT ![r] = Idle]
          /\ last' = LastStep("updateProfile", "load", id, id,
                              errorHandler(createNotFoundError("User")))
     ELSE /\ reqs' = [reqs EXCEPT ![r] =
                        [op |-> "updateProfile", pc |-> "save", raw |-> reqs[r].raw,
                         user |-> ObjectAssign(CHOOSE u \in UserFindById(users, id) : TRUE,
                                               reqs[r].body)]]
          /\ last' = LastStep("updateProfile", "load", id, id, NoResp)
  /\ UNCHANGED <<users, tasks, now, taskSeq>>

updateProfileSave(r) ==
  /\ reqs[r].op = "updateProfile"
  /\ reqs[r].pc = "save"
  /\ \E salt \in Salts :
       LET q == reqs[r]
           store == UserSave(users, q.user, now, salt)
       IN /\ users' = store
          /\ last' = LastTaskRequest("updateProfile", "save", q.user.id, q.user.id, q.raw,
                                     Response(HttpStatus.OK, TRUE,
                                              <<"User", "profile", "updated", "successfully">>,
                                              NoCode,
                                              ObjectWithout(store[q.user.id], "password")))
  /\ reqs' = [reqs EXCEPT ![r] = Idle]
  /\ UNCHANGED <<tasks, now, taskSeq>>

\* DELETE /users/me: deactivateAccount up to the save
deactivateAccount(r) ==
  /\ reqs[r].op = "deactivateAccount"
  /\ reqs[r].pc = "load"
  /\ LET id == reqs[r].user.id IN
     IF UserFindById(users, id) = {}
     THEN /\ reqs' = [reqs EXCEPT ![r] = Idle]
          /\ last' = LastStep("deactivateAccount", "load", id, id,
                              errorHandler(createNotFoundError("User")))
     ELSE /\ reqs' = [reqs EXCEPT ![r] =
                        [op |-> "deactivateAccount", pc |-> "save",
                         user |-> [(CHOOSE u \in UserFindById(users, id) : TRUE)
                                     EXCEPT !.isActive = FALSE]]]
          /\ last' = LastStep("deactivateAccount", "load", id, id, NoResp)
  /\ UNCHANGED <<users, tasks, now, taskSeq>>

deactivateAccountSave(r) ==
  /\ reqs[r].op = "deactivateAccount"
  /\ reqs[r].pc = "save"
  /\ \E salt \in Salts :
       LET q == reqs[r] IN
       /\ users' = UserSave(users, q.user, now, salt)
       /\ last' = LastStep("deactivateAccount", "save", q.user.id, q.user.id,
                           Response(HttpStatus.OK, TRUE,
                                    <<"User", "account", "deactivated", "successfully">>,
                                    NoCode, NoData))
  /\ reqs' = [reqs EXCEPT ![r] = Idle]
  /\ UNCHANGED <<tasks, now, taskSeq>>

\* the clock advances to the next day on which a token issued on day 0 expires
Instants == {JwtExpiresIn, JwtRefreshExpiresIn}

Tick ==
  /\ \E t \in Instants : t > now /\ t <= MaxTime /\ now' = t
  /\ UNCHANGED <<users, tasks, reqs, taskSeq, last>>

----------------------------------------------------------------------------
\* Initial states

NothingYet == LastStep("none", "none", Null, Null, NoResp)

\* the state after construction: empty tables
Init ==
  /\ users = <<>>
  /\ tasks = <<>>
  /\ now = 0
  /\ reqs = [r \in Slots |-> Idle]
  /\ taskSeq = 0
  /\ last = NothingYet

\* the accounts that signed up on day 0, before the run starts: both saves of
\* signup have run for each
SeedBody(i) ==
  [email |-> <<"u", ToString(i), "@", "x">>,
   password |-> <<"A", "a", "1", "!", "a", "a", "a", ToString(i)>>,
   firstName |-> <<"J">>, lastName |-> <<"D">>]

SeedUser(store, i) ==
  LET e == signupEntity(signupSchemaValue(SeedBody(i)))
      savedUser == UserInsertRow(store, e, 0, "salt1")
  IN UserSave(UserInsert(store, e, 0, "salt1"), updateLastLogin(savedUser, 0), 0, "salt1")

RECURSIVE SeedUsersUpTo(_)
SeedUsersUpTo(n) == IF n = 0 THEN <<>> ELSE SeedUser(SeedUsersUpTo(n - 1), n)

SeedUsers == SeedUsersUpTo(MaxUsers)

\* the task service starts with the accounts in place
InitTasks ==
  /\ users = SeedUsers
  /\ tasks = <<>>
  /\ now = 0
  /\ reqs = [r \in Slots |-> Idle]
  /\ taskSeq = 0
  /\ last = NothingYet

----------------------------------------------------------------------------
\* The task service, one request at a time

\* callers: the two accounts; createTask is also called with an id that has no
\* user record
Callers == 1..MaxUsers

TaskIdInputs == 1..(MaxTasks + 1)   \* every id the store generates, and one it never does

CreateInputs ==
  { [title |-> <<"T">>],
    [title |-> <<"T">>, status |-> COMPLETED],
    [title |-> <<"T">>, status |-> IN_PROGRESS, priority |-> HIGH] }

\* patches the update schema accepts, one of them naming another owner, and
\* one it refuses
UpdateInputs ==
  { [status |-> COMPLETED], [status |-> IN_PROGRESS], [status |-> PENDING],
    [title |-> <<"U">>], [title |-> <<"U">>, userId |-> 1], [userId |-> 2] }

BulkInputs == { <<>>, <<1>>, <<2, 1>>, <<1, 1>>, <<1, MaxTasks + 1>> }

NextTasks ==
  \/ \E r \in Slots, u \in Callers \cup {MaxUsers + 1}, d \in CreateInputs :
       createTask(r, FALSE, u, d)
  \/ \E r \in Slots : createTaskSave(r)
  \/ \E u \in Callers, t \in TaskIdInputs : getTaskById(FALSE, u, t)
  \/ \E r \in Slots, u \in Callers, t \in TaskIdInputs, d \in UpdateInputs :
       updateTask(r, FALSE, u, t, d)
  \/ \E r \in Slots : updateTaskSave(r)
  \/ \E r \in Slots, u \in Callers, t \in TaskIdInputs : completeTask(r, FALSE, u, t)
  \/ \E r \in Slots : completeTaskSave(r)
  \/ \E r \in Slots, u \in Callers, t \in TaskIdInputs : deleteTask(r, FALSE, u, t)
  \/ \E r \in Slots : deleteTaskRemove(r)
  \/ \E r \in Slots, u \in Callers, l \in BulkInputs, st \in TaskStatus :
       bulkUpdateStatus(r, FALSE, u, l, st)
  \/ \E r \in Slots : bulkUpdateStatusLoad(r)
  \/ \E r \in Slots : bulkUpdateStatusSave(r)
  \/ \E r \in Slots, u \in Callers, l \in BulkInputs : bulkDeleteTasks(r, FALSE, u, l)
  \/ \E r \in Slots : bulkDeleteTasksLoad(r)
  \/ \E r \in Slots : bulkDeleteTasksRemove(r)

SpecTasks == InitTasks /\ [][NextTasks]_vars

----------------------------------------------------------------------------
\* The task service under concurrent requests of one account

\* the first account
RaceCaller == CHOOSE u \in Callers : \A v \in Callers : u <= v

RaceUpdates == { [title |-> <<"U">>], [status |-> COMPLETED] }

NextTaskRace ==
  \/ \E r \in Slots : createTask(r, TRUE, RaceCaller, [title |-> <<"T">>])
  \/ \E r \in Slots : createTaskSave(r)
  \/ \E t \in 1..MaxTasks : getTaskById(TRUE, RaceCaller, t)
  \/ \E r \in Slots, t \in 1..MaxTasks, d \in RaceUpdates : updateTask(r, TRUE, RaceCaller, t, d)
  \/ \E r \in Slots : updateTaskSave(r)
  \/ \E r \in Slots, t \in 1..MaxTasks : completeTask(r, TRUE, RaceCaller, t)
  \/ \E r \in Slots : completeTaskSave(r)
  \/ \E r \in Slots, t \in 1..MaxTasks : deleteTask(r, TRUE, RaceCaller, t)
  \/ \E r \in Slots : deleteTaskRemove(r)

SpecTaskRace == InitTasks /\ [][NextTaskRace]_vars

----------------------------------------------------------------------------
\* Concurrent updates of one account's tasks, each save as its two queries

SaveRaceUpdates ==
  { [status |-> COMPLETED], [status |-> IN_PROGRESS], [title |-> <<"U">>] }

NextSaveRace ==
  \/ \E r \in Slots : createTask(r, TRUE, RaceCaller, [title |-> <<"T">>])
  \/ \E r \in Slots : createTaskSave(r)
  \/ \E r \in Slots, t \in 1..MaxTasks, d \in SaveRaceUpdates :
       updateTask(r, TRUE, RaceCaller, t, d)
  \/ \E r \in Slots : updateTaskSaveSelect(r)
  \/ \E r \in Slots : updateTaskSaveUpdate(r)

SpecSaveRace == InitTasks /\ [][NextSaveRace]_vars

----------------------------------------------------------------------------
\* Pagination of getTasks over stores of 0..MaxRows tasks

\* the store after account 1 created n tasks, due on days 1..n, and account 2
\* created one
RECURSIVE PageStoreUpTo(_)
PageStoreUpTo(n) ==
  IF n = 0 THEN <<>>
  ELSE TaskInsert(PageStoreUpTo(n - 1), n,
                  createTaskEntity(1, [title |-> <<"T">>, dueDate |-> n]), 0)

PageStore(n) ==
  TaskInsert(PageStoreUpTo(n), n + 1, createTaskEntity(2, [title |-> <<"T">>]), 0)

InitPages ==
  /\ users = SeedUsers
  /\ tasks \in {PageStore(n) : n \in 0..MaxRows}
  /\ now = 0
  /\ reqs = [r \in Slots |-> Idle]
  /\ taskSeq = Cardinality(DOMAIN tasks)
  /\ last = NothingYet

PageInputs == {1, 2, 3, 4, MaxRows + 1}

LimitInputs == {1, 2, 10, 100}

\* queries with page and limit, one that leaves both to their defaults, and
\* three the schema refuses
PageQueries ==
  {[page |-> p, limit |-> l, sortBy |-> "dueDate", sortOrder |-> "ASC"] :
     p \in PageInputs, l \in LimitInputs}
  \cup {[sortBy |-> "dueDate"], [page |-> 0], [limit |-> 0], [limit |-> 101]}

NextPages == \E u \in Callers, q \in PageQueries : getTasks(FALSE, u, q)

SpecPages == InitPages /\ [][NextPages]_vars

----------------------------------------------------------------------------
\* The filters of getTasks over a store of two accounts

\* what the two accounts created on day 0
FilterTasks ==
  << [userId |-> 1, data |-> [title |-> <<"A", "b">>]],
     [userId |-> 1, data |-> [title |-> <<"b", "_">>, description |-> <<"x", "A">>,
                               status |-> IN_PROGRESS, priority |-> HIGH, dueDate |-> 2]],
     [userId |-> 1, data |-> [title |-> <<"c">>, description |-> <<>>,
                               status |-> COMPLETED, priority |-> LOW, dueDate |-> 5]],
     [userId |-> 2, data |-> [title |-> <<"A", "b">>, description |-> <<"a">>,
                               dueDate |-> 2]] >>

RECURSIVE FilterStoreUpTo(_)
FilterStoreUpTo(n) ==
  IF n = 0 THEN <<>>
  ELSE TaskInsert(FilterStoreUpTo(n - 1), n,
                  createTaskEntity(FilterTasks[n].userId, FilterTasks[n].data), 0)

InitFilters ==
  /\ users = SeedUsers
  /\ tasks = FilterStoreUpTo(Len(FilterTasks))
  /\ now = 0
  /\ reqs = [r \in Slots |-> Idle]
  /\ taskSeq = Len(FilterTasks)
  /\ last = NothingYet

NoFilter == [f \in {} |-> Null]

StatusFilters == {NoFilter, [status |-> PENDING], [status |-> COMPLETED]}

PriorityFilters == {NoFilter, [priority |-> HIGH]}

DueFromFilters == {NoFilter, [dueDateFrom |-> 2]}

DueToFilters == {NoFilter, [dueDateTo |-> 2], [dueDateTo |-> 4]}

SearchFilters ==
  {NoFilter} \cup {[search |-> <<c>>] : c \in {"a", "A", "B", "x", "z", "_", "%"}}

\* every combination of the filters, and a range the schema refuses
FilterQueries ==
  {ObjectAssign(ObjectAssign(ObjectAssign(ObjectAssign(st, pr), from), to), se) :
     st \in StatusFilters, pr \in PriorityFilters, from \in DueFromFilters,
     to \in DueToFilters, se \in SearchFilters}
  \cup {[dueDateFrom |-> 5, dueDateTo |-> 2]}

NextFilters == \E u \in Callers, q \in FilterQueries : getTasks(FALSE, u, q)

SpecFilters == InitFilters /\ [][NextFilters]_vars

----------------------------------------------------------------------------
\* Signup and login under concurrent callers, from the empty store

GoodPassword == <<"A", "a", "1", "!", "a", "a", "a", "a">>

\* accepted by the signup pattern, and begins like a bcrypt hash
HashLikePassword == <<"$", "2", "A", "a", "a", "a", "a", "a">>

\* two accepted passwords of 73 characters that differ in the last one only
LongPassword(c) == Repeat("a", BcryptMaxBytes - 3) \o <<"A", "1", "!", c>>

\* refused by the signup pattern
WeakPassword == Repeat("a", 8)

PasswordInputs ==
  {GoodPassword, HashLikePassword, LongPassword("x"), LongPassword("y"), WeakPassword}

EmailInputs == {<<"a", "@", "x">>, <<"A", "@", "X">>, <<"b", "@", "x">>}

SignupInputs ==
  {[email |-> e, password |-> p, firstName |-> <<"J">>, lastName |-> <<"D">>] :
     e \in EmailInputs, p \in PasswordInputs}

LoginInputs == {[email |-> e, password |-> p] : e \in EmailInputs, p \in PasswordInputs}

NextAuth ==
  \/ \E r \in Slots, b \in SignupInputs : signup(r, TRUE, b)
  \/ \E r \in Slots : signupInsert(r)
  \/ \E r \in Slots : signupSave(r)
  \/ \E r \in Slots, b \in LoginInputs : login(r, TRUE, b)
  \/ \E r \in Slots : loginSave(r)

SpecAuth == Init /\ [][NextAuth]_vars

----------------------------------------------------------------------------
\* The auth gate and the token verifiers, one request at a time, as time passes

InitAccounts ==
  /\ users = SeedUsers
  /\ tasks = <<>>
  /\ now = 0
  /\ reqs = [r \in Slots |-> Idle]
  /\ taskSeq = 0
  /\ last = NothingYet

\* the days on which a token may have been issued
IssueTimes(clock) == {t \in {0} \cup Instants : t <= clock}

\* whom a presented token may name: every stored user, and an id with no record
TokenSubjects(store) ==
  {Select(store[u], {"id", "email"}) : u \in DOMAIN store}
    \cup {[id |-> MaxUsers + 1, email |-> <<"g", "@", "x">>]}

OtherIssuer == "another-api"
OtherAudience == "another-client"
OtherSecret == "not-the-server-key"

\* tokens a client may present: the ones the service issued, tokens signed with
\* a key the server does not hold, tokens signed with the server's keys for
\* another issuer or audience, and a string that is no token
IssuedTokens(store, clock) ==
  UNION {{generateAccessToken(u, t), generateRefreshToken(u, t)} :
           u \in TokenSubjects(store), t \in IssueTimes(clock)}

ForeignTokens(store) ==
  UNION {
    LET payload == [userId |-> u.id, email |-> u.email] IN
    { jwtSign(payload, JWT_SECRET, JwtExpiresIn, OtherIssuer, Audience, 0),
      jwtSign(payload, JWT_SECRET, JwtExpiresIn, Issuer, OtherAudience, 0),
      jwtSign(payload, JWT_REFRESH_SECRET, JwtRefreshExpiresIn, OtherIssuer, Audience, 0),
      jwtSign(payload, JWT_REFRESH_SECRET, JwtRefreshExpiresIn, Issuer, OtherAudience, 0) }
    : u \in TokenSubjects(store) }

ForgedTokens(store) ==
  {jwtSign([userId |-> store[u].id, email |-> store[u].email], OtherSecret, JwtExpiresIn,
           Issuer, Audience, 0) : u \in DOMAIN store}

TokenInputs(store, clock) ==
  IssuedTokens(store, clock) \cup ForeignTokens(store) \cup ForgedTokens(store)
    \cup {MalformedToken}

HeaderInputs(store, clock) ==
  {NoHeader, <<"Bearer">>}
    \cup {<<"Bearer", tok>> : tok \in TokenInputs(store, clock)}
    \cup {<<"Basic", generateAccessToken(store[u], 0)>> : u \in DOMAIN store}

\* the requests to /users/me: the route and the body sent with it
NoBody == NoData

ProfileRequests ==
  { [route |-> "getProfile", body |-> NoBody],
    [route |-> "updateProfile", body |-> [firstName |-> <<"K">>]],
    [route |-> "updateProfile", body |-> [role |-> ADMIN]],
    [route |-> "deactivateAccount", body |-> NoBody] }

NextGate ==
  \/ \E r \in Slots, h \in HeaderInputs(users, now), q \in ProfileRequests, dbUp \in BOOLEAN :
       authenticate(r, FALSE, h, q.route, q.body, dbUp)
  \/ \E r \in Slots : getProfile(r)
  \/ \E r \in Slots : updateProfile(r)
  \/ \E r \in Slots : updateProfileSave(r)
  \/ \E r \in Slots : deactivateAccount(r)
  \/ \E r \in Slots : deactivateAccountSave(r)
  \/ \E tok \in TokenInputs(users, now) : refreshToken(FALSE, tok)
  \/ Tick

SpecGate == InitAccounts /\ [][NextGate]_vars

----------------------------------------------------------------------------
\* Every route that returns a user, one request at a time, from the empty store

ProfileSignups ==
  {[email |-> e, password |-> p, firstName |-> <<"J">>, lastName |-> <<"D">>] :
     e \in {<<"a", "@", "x">>, <<"b", "@", "x">>}, p \in {GoodPassword, HashLikePassword}}

ProfileLogins ==
  {[email |-> b.email, password |-> p] :
     b \in ProfileSignups, p \in {GoodPassword, HashLikePassword}}

\* the access token each stored user was given when it signed up
SignupHeaders(store) ==
  {<<"Bearer", generateAccessToken(store[u], store[u].createdAt)>> : u \in DOMAIN store}

\* the refresh token each stored user was given when it signed up
SignupRefreshTokens(store) ==
  {generateRefreshToken(store[u], store[u].createdAt) : u \in DOMAIN store}

\* a profile update that names, beside a first name, the columns the route
\* does not offer
OverreachingUpdate ==
  [route |-> "updateProfile",
   body |-> [firstName |-> <<"K">>, role |-> ADMIN, email |-> <<"n", "@", "x">>,
             password |-> GoodPassword, isActive |-> FALSE]]

NextProfiles ==
  \/ \E r \in Slots, b \in ProfileSignups : signup(r, FALSE, b)
  \/ \E r \in Slots : signupInsert(r)
  \/ \E r \in Slots : signupSave(r)
  \/ \E r \in Slots, b \in ProfileLogins : login(r, FALSE, b)
  \/ \E r \in Slots : loginSave(r)
  \/ \E r \in Slots, h \in SignupHeaders(users),
          q \in ProfileRequests \cup {OverreachingUpdate} :
       authenticate(r, FALSE, h, q.route, q.body, TRUE)
  \/ \E r \in Slots : getProfile(r)
  \/ \E r \in Slots : updateProfile(r)
  \/ \E r \in Slots : updateProfileSave(r)
  \/ \E r \in Slots : deactivateAccount(r)
  \/ \E r \in Slots : deactivateAccountSave(r)
  \/ \E tok \in SignupRefreshTokens(users) : refreshToken(FALSE, tok)
  \/ \E r \in Slots, u \in DOMAIN users : createTask(r, FALSE, u, [title |-> <<"T">>])
  \/ \E r \in Slots : createTaskSave(r)

SpecProfiles == Init /\ [][NextProfiles]_vars

----------------------------------------------------------------------------
\* Requests to the auth, user and task routes from the empty store, with the
\* condition that every query and every hash that a request waits for returns.
\* A task request starts while other requests wait; a signup, a login and a
\* request to a user route start when no request waits.

RouteSignup ==
  [email |-> <<"a", "@", "x">>, password |-> GoodPassword, firstName |-> <<"J">>,
   lastName |-> <<"D">>]

RouteLogin == [email |-> RouteSignup.email, password |-> RouteSignup.password]

RouteHeaders(store) == SignupHeaders(store) \cup {NoHeader}

\* a body that validate passes on and one that it answers itself
RouteSignups == {RouteSignup, [RouteSignup EXCEPT !.password = WeakPassword]}

NextRoutes ==
  \/ \E r \in Slots, body \in RouteSignups : signup(r, FALSE, body)
  \/ \E r \in Slots : signupInsert(r)
  \/ \E r \in Slots : signupSave(r)
  \/ \E r \in Slots : login(r, FALSE, RouteLogin)
  \/ \E r \in Slots : loginSave(r)
  \/ \E r \in Slots, h \in RouteHeaders(users), q \in ProfileRequests, dbUp \in BOOLEAN :
       authenticate(r, FALSE, h, q.route, q.body, dbUp)
  \/ \E r \in Slots : getProfile(r)
  \/ \E r \in Slots : updateProfile(r)
  \/ \E r \in Slots : updateProfileSave(r)
  \/ \E r \in Slots : deactivateAccount(r)
  \/ \E r \in Slots : deactivateAccountSave(r)
  \/ \E r \in Slots, u \in DOMAIN users : createTask(r, TRUE, u, [title |-> <<"T">>])
  \/ \E r \in Slots : createTaskSave(r)
  \/ \E r \in Slots, u \in DOMAIN users, t \in 1..MaxTasks :
       updateTask(r, TRUE, u, t, [status |-> COMPLETED])
  \/ \E r \in Slots : updateTaskSave(r)
  \/ \E r \in Slots, u \in DOMAIN users, t \in 1..MaxTasks : deleteTask(r, TRUE, u, t)
  \/ \E r \in Slots : deleteTaskRemove(r)

\* the step with which request r goes on when the query or the hash it waits
\* for has returned
Resume(r) ==
  \/ signupInsert(r) \/ signupSave(r) \/ loginSave(r)
  \/ getProfile(r) \/ updateProfile(r) \/ updateProfileSave(r)
  \/ deactivateAccount(r) \/ deactivateAccountSave(r)
  \/ createTaskSave(r) \/ updateTaskSave(r) \/ deleteTaskRemove(r)

SpecRoutes == Init /\ [][NextRoutes]_vars

\* every awaited call returns: a request that can go on does go on
SpecRoutesFair == SpecRoutes /\ \A r \in Slots : WF_vars(Resume(r))

----------------------------------------------------------------------------
\* Accounts under concurrent requests: login, profile and deactivation overlap

IssuedHeaders(store) == {<<"Bearer", generateAccessToken(store[u], 0)>> : u \in DOMAIN store}

IssuedRefreshTokens(store) == {generateRefreshToken(store[u], 0) : u \in DOMAIN store}

SeedLogins == {[email |-> SeedBody(i).email, password |-> SeedBody(i).password] : i \in 1..MaxUsers}

\* an email nobody signed up with
UnknownEmail == <<"n", "@", "x">>

\* logins with the right password, with another account's password, and with
\* an email that is not registered
LoginAttempts ==
  {[email |-> e, password |-> SeedBody(i).password] :
     e \in {SeedBody(j).email : j \in 1..MaxUsers} \cup {UnknownEmail}, i \in 1..MaxUsers}

NextAccounts ==
  \/ \E r \in Slots, b \in LoginAttempts : login(r, TRUE, b)
  \/ \E r \in Slots : loginSave(r)
  \/ \E r \in Slots, h \in IssuedHeaders(users), q \in ProfileRequests :
       authenticate(r, TRUE, h, q.route, q.body, TRUE)
  \/ \E r \in Slots : getProfile(r)
  \/ \E r \in Slots : updateProfile(r)
  \/ \E r \in Slots : updateProfileSave(r)
  \/ \E r \in Slots : deactivateAccount(r)
  \/ \E r \in Slots : deactivateAccountSave(r)
  \/ \E tok \in IssuedRefreshTokens(users) : refreshToken(TRUE, tok)

SpecAccounts == InitAccounts /\ [][NextAccounts]_vars

----------------------------------------------------------------------------
\* Claims about the task service (SpecTasks)

TaskNotFound == errorHandler(createNotFoundError("Task"))

\* C1: in every reachable state every stored task has completedAt non-null
\* exactly when its status is completed.
C1_CompletedAtIffCompleted ==
  \A t \in DOMAIN tasks : (tasks[t].completedAt # Null) <=> (tasks[t].status = COMPLETED)

\* C2: getTaskById by a caller who does not own the task answers NotFound, 404,
\* never the task and never 403, and answers exactly what it answers for an id
\* that does not exist.
C2_CrossTenantIsNotFound ==
  /\ \A b \in Callers, t \in DOMAIN tasks :
        tasks[t].userId # b =>
          /\ getTaskByIdResponse(tasks, b, t).status = HttpStatus.NOT_FOUND
          /\ getTaskByIdResponse(tasks, b, t).error = ErrorCodes.NOT_FOUND
          /\ getTaskByIdResponse(tasks, b, t).data = NoData
          /\ getTaskByIdResponse(tasks, b, t) = getTaskByIdResponse(tasks, b, MaxTasks + 1)
  /\ (/\ last.op = "getTaskById"
      /\ last.target \in DOMAIN tasks
      /\ tasks[last.target].userId # last.userId) => last.resp = TaskNotFound

\* C2's case: a caller has just asked for a stored task of another user
C2_Witness ==
  /\ last.op = "getTaskById"
  /\ last.target \in DOMAIN tasks
  /\ tasks[last.target].userId # last.userId
  /\ last.resp.status = HttpStatus.NOT_FOUND

\* C3: updateTask, completeTask and deleteTask by a caller who does not own the
\* task answer NotFound and change nothing; every step that changes or removes
\* a stored task is a step of a call by its owner.
C3_OnlyOwnerModifies ==
  [][\A t \in DOMAIN tasks :
       /\ (/\ last'.op \in {"updateTask", "completeTask", "deleteTask"}
           /\ last'.step = "load"
           /\ last'.target = t
           /\ last'.userId # tasks[t].userId)
            => (last'.resp = TaskNotFound /\ tasks' = tasks /\ reqs' = reqs)
       /\ (t \notin DOMAIN tasks' \/ tasks'[t] # tasks[t])
            => (/\ last'.userId = tasks[t].userId
                /\ last'.op \in {"updateTask", "completeTask", "deleteTask",
                                  "bulkUpdateStatus", "bulkDeleteTasks"})]_vars

\* C3's case: a caller who does not own a stored task has just tried to delete it
C3_Witness ==
  /\ last.op = "deleteTask"
  /\ last.target \in DOMAIN tasks
  /\ tasks[last.target].userId # last.userId
  /\ last.resp.status = HttpStatus.NOT_FOUND

----------------------------------------------------------------------------
\* Claims about signup and login (SpecAuth)

\* the passwords the signup schema accepts among those submitted
SubmittedPasswords == {b.password : b \in {c \in SignupInputs : signupSchemaOk(c)}}

IsBcryptHash(p) == Len(p) = BcryptHashLen /\ startsWith(p, BcryptPrefix)

\* C4: whatever accepted password a user signed up with, the stored password
\* is a bcrypt hash and never the password as it was submitted.
C4_StoredPasswordIsHash ==
  \A u \in DOMAIN users :
    IsBcryptHash(users[u].password) /\ users[u].password \notin SubmittedPasswords

SameEmailIgnoringCase(a, b) ==
  Len(a) = Len(b) /\ \A i \in DOMAIN a : LowerChar(a[i]) = LowerChar(b[i])

EmailStored(store, email) ==
  \E u \in DOMAIN store : SameEmailIgnoringCase(store[u].email, email)

\* C9: a signup that reaches the service with an email equal, ignoring case, to
\* the email of a stored user is answered 409 DUPLICATE_RESOURCE and leaves the
\* users table as it was, both when the service's lookup finds the user and
\* when the unique index refuses the insert.
C9_DuplicateSignupFails ==
  [][(/\ last'.op = "signup"
      /\ last'.step \in {"check", "insert"}
      /\ EmailStored(users, last'.input.email))
       => (/\ last'.resp.status = HttpStatus.CONFLICT
           /\ last'.resp.error = ErrorCodes.DUPLICATE_RESOURCE
           /\ last'.resp.success = FALSE
           /\ users' = users)]_vars

\* C9's case: an account exists under a@x and a signup as A@X has just been
\* refused
C9_Witness ==
  /\ last.op = "signup"
  /\ last.input.email = <<"A", "@", "X">>
  /\ \E u \in DOMAIN users : users[u].email = <<"a", "@", "x">>
  /\ last.resp.status = HttpStatus.CONFLICT

\* p is a password whose signup stores what this row holds
SignedUpWith(row, p) ==
  /\ SignupPasswordOk(p)
  /\ \E salt \in Salts : hashPassword([password |-> p], salt).password = row.password

\* C10: once a signup has completed, a login that names the active account
\* passes the password check when it carries the password the account signed
\* up with, and is answered 401 AUTHENTICATION_ERROR when it carries any other;
\* the login that passes is answered 200 with both tokens.
C10_LoginMatchesSignup ==
  /\ (last.op = "login" /\ last.step = "load" /\ last.userId # Null
        /\ users[last.userId].isActive
        /\ users[last.userId].lastLoginAt # Null
        /\ \A q \in Slots : reqs[q].op # "signup")
       => IF SignedUpWith(users[last.userId], last.input.password)
          THEN last.resp = NoResp
          ELSE /\ last.resp.status = HttpStatus.UNAUTHORIZED
               /\ last.resp.error = ErrorCodes.AUTHENTICATION_ERROR
  /\ (last.op = "login" /\ last.step = "save")
       => /\ last.resp.status = HttpStatus.OK
          /\ last.resp.data.token = generateAccessToken(users[last.userId], now)
          /\ last.resp.data.refreshToken = generateRefreshToken(users[last.userId], now)

----------------------------------------------------------------------------
\* Claims about the auth gate and the token verifiers (SpecGate)

\* the cases in which the gate must refuse a request
GateRefuses(store, h, clock) ==
  \/ h = NoHeader
  \/ h[1] # "Bearer"
  \/ Len(h) < 2
  \/ ~h[2].jwt
  \/ h[2].sig # JWT_SECRET
  \/ clock >= h[2].exp
  \/ h[2].userId \notin DOMAIN store
  \/ ~store[h[2].userId].isActive

\* the cases that are decided before the user is looked up
GateRefusesToken(h, clock) ==
  \/ h = NoHeader
  \/ h[1] # "Bearer"
  \/ Len(h) < 2
  \/ ~h[2].jwt
  \/ h[2].sig # JWT_SECRET
  \/ clock >= h[2].exp

\* what a request through the gate does (the clock stands still in every step
\* but Tick, and every other step records itself in `last`); `answer` is what
\* the gate answers when the user lookup answers
GateStep ==
  (last'.op = "authenticate" /\ now' = now) =>
    LET h == last'.input.header
        answer == authenticateResponse(users, h, now, TRUE)
    IN /\ IF GateRefuses(users, h, now)
          THEN /\ answer.status = HttpStatus.UNAUTHORIZED
               /\ answer.success = FALSE
               /\ answer.error = ErrorCodes.AUTHENTICATION_ERROR
          ELSE /\ answer = NoResp
               /\ authenticateUser(users, h) = Select(users[h[2].userId], AuthColumns)
       /\ GateRefusesToken(h, now) => last'.resp = answer
       /\ GateRefuses(users, h, now) =>
            /\ last'.resp.status \in {HttpStatus.UNAUTHORIZED,
                                      HttpStatus.INTERNAL_SERVER_ERROR}
            /\ reqs' = reqs
       /\ last'.resp = NoResp =>
            /\ ~GateRefuses(users, h, now)
            /\ \E r \in Slots : /\ reqs[r] = Idle
                                 /\ reqs'[r].op = last'.step
                                 /\ reqs'[r].user = Select(users[h[2].userId], AuthColumns)

\* C5: the gate answers 401 and runs no handler when the header is missing or
\* not a Bearer header, when the token is malformed or expired, and when the
\* token's user has no record or is inactive; the handler runs only for a
\* token that verifies and names an active user, and that user is attached.
C5_GateRefusesOrAttaches == [][GateStep]_vars

\* C5's case: a request with a token of a deactivated user has just been refused
C5_Witness ==
  /\ last.op = "authenticate"
  /\ last.resp = Unauthorized(<<"User", "account", "is", "deactivated">>)
  /\ \A r \in Slots : reqs[r] = Idle

InvalidRefreshToken == errorHandler(createAuthenticationError(<<"Invalid", "refresh", "token">>))

\* C7: an access token presented to refreshToken is answered with the
\* AuthenticationError, a refresh token presented to the gate as a bearer token
\* is answered 401, and an unexpired token of an active user is accepted by the
\* verifier of its own kind.
C7_TokenKindsAreSeparate ==
  \A u \in DOMAIN users, t \in IssueTimes(now) :
    LET access == generateAccessToken(users[u], t)
        refresh == generateRefreshToken(users[u], t)
    IN /\ refreshTokenResponse(users, access, now) = InvalidRefreshToken
       /\ InvalidRefreshToken.status = HttpStatus.UNAUTHORIZED
       /\ authenticateResponse(users, <<"Bearer", refresh>>, now, TRUE).status
            = HttpStatus.UNAUTHORIZED
       /\ (users[u].isActive /\ now < access.exp)
            => authenticateResponse(users, <<"Bearer", access>>, now, TRUE) = NoResp
       /\ (users[u].isActive /\ now < refresh.exp)
            => /\ refreshTokenResponse(users, refresh, now).status = HttpStatus.OK
               /\ refreshTokenResponse(users, refresh, now).data.token
                    = generateAccessToken(users[u], now)

\* C7's case: an unexpired access token of an active user has just been
\* presented to refreshToken and refused
C7_Witness ==
  /\ last.op = "refreshToken"
  /\ last.userId \in DOMAIN users
  /\ users[last.userId].isActive
  /\ last.input \in {generateAccessToken(users[last.userId], t) : t \in IssueTimes(now)}
  /\ now < last.input.exp
  /\ last.resp = InvalidRefreshToken

IsForeign(token) == token.jwt /\ (token.iss # Issuer \/ token.aud # Audience)

\* C8: a token whose issuer or audience is not the one the service writes into
\* its tokens is refused by the gate, by verifyToken and by refreshToken, valid
\* signature and unexpired or not.
C8_ForeignTokensRefused ==
  /\ (/\ last.op = "authenticate"
      /\ Len(last.input.header) = 2
      /\ IsForeign(last.input.header[2])
      /\ last.resp.status # HttpStatus.INTERNAL_SERVER_ERROR)
       => /\ last.resp.status = HttpStatus.UNAUTHORIZED
          /\ ~verifyTokenOk(users, last.input.header[2], now)
  /\ (last.op = "refreshToken" /\ IsForeign(last.input))
       => last.resp = InvalidRefreshToken

----------------------------------------------------------------------------
\* Claims about accounts under concurrent requests (SpecAccounts)

\* C6: once an account is inactive it stays inactive and stays stored, so the
\* gate, refreshToken and login refuse it from then on.
C6_DeactivationIsFinal ==
  [][\A u \in DOMAIN users :
       ~users[u].isActive =>
         /\ u \in DOMAIN users'
         /\ ~users'[u].isActive
         /\ \A h \in IssuedHeaders(users') :
              h[2].userId = u =>
                authenticateResponse(users', h, now', TRUE).status = HttpStatus.UNAUTHORIZED
         /\ \A tok \in IssuedRefreshTokens(users') :
              tok.userId = u => refreshTokenResponse(users', tok, now') = InvalidRefreshToken]_vars

\* the response to a login with an email that is not registered
UnknownEmailResponse(store, password) ==
  loginRefusal(store, loginSchemaValue([email |-> UnknownEmail, password |-> password]))

\* the last step was a login that the service refused for a registered email
RegisteredLoginRefused ==
  /\ last.op = "login" /\ last.step = "load"
  /\ last.resp # NoResp
  /\ last.userId \in DOMAIN users

\* C11: a login with a registered email and a wrong password gets the very
\* response (status 401, error code, message) that a login with an email that
\* is not registered gets.
C11_WrongPasswordLooksUnknown ==
  (/\ RegisteredLoginRefused
   /\ ~comparePassword(users[last.userId], last.input.password))
  => /\ last.resp = UnknownEmailResponse(users, last.input.password)
     /\ last.resp.status = HttpStatus.UNAUTHORIZED

\* C12: a login for an inactive account gets 401 and the very response that
\* a login with an email that is not registered gets, whatever the password.
C12_InactiveLooksUnknown ==
  (/\ RegisteredLoginRefused
   /\ ~users[last.userId].isActive)
  => /\ last.resp = UnknownEmailResponse(users, last.input.password)
     /\ last.resp.status = HttpStatus.UNAUTHORIZED

\* the last step answered with a user object
ReturnsUser ==
  /\ last.op \in {"signup", "login", "getProfile", "updateProfile"}
  /\ last.resp.success

ReturnedUser ==
  IF last.op \in {"signup", "login"} THEN last.resp.data.user ELSE last.resp.data

\* C13: the user object that signup, login, updateProfile and getUserProfile
\* return has no password field, and no field of it holds the stored password.
C13_ReturnedUserHasNoPassword ==
  ReturnsUser =>
    /\ "password" \notin DOMAIN ReturnedUser
    /\ "password" \notin DOMAIN last.resp.data
    /\ \A f \in {"email", "firstName", "lastName"} :
         ReturnedUser[f] # users[ReturnedUser.id].password

\* updateProfile has returned the user of an account whose password is stored
\* as submitted
C13_Witness ==
  /\ ReturnsUser
  /\ last.op = "updateProfile"
  /\ users[ReturnedUser.id].password = HashLikePassword

\* request r is about to save the task it loaded and changed
SavingTask(r) ==
  \/ reqs[r].op \in {"updateTask", "completeTask"}
  \/ reqs[r].op = "bulkUpdateStatus" /\ reqs[r].pc = "save"

\* C14: every save of updateTask, completeTask or a bulkUpdateStatus item
\* stores the status the request set, with completedAt non-null when that
\* status is completed and null when it is pending or in_progress, whatever
\* the row held before.
C14_StatusWriteSetsCompletedAt ==
  [][\A r \in Slots :
       (SavingTask(r) /\ reqs'[r] # reqs[r]) =>
         LET id == reqs[r].task.id IN
         /\ id \in DOMAIN tasks'
         /\ tasks'[id].status = reqs[r].task.status
         /\ tasks'[id].status = COMPLETED => tasks'[id].completedAt # Null
         /\ tasks'[id].status \in {PENDING, IN_PROGRESS} => tasks'[id].completedAt = Null]_vars

\* an updateTask has just stored pending with no completedAt, and another task
\* is stored completed with its completedAt
C14_Witness ==
  /\ last.op = "updateTask" /\ last.step = "save"
  /\ tasks[last.target].status = PENDING /\ tasks[last.target].completedAt = Null
  /\ \E t \in DOMAIN tasks :
       t # last.target /\ tasks[t].status = COMPLETED /\ tasks[t].completedAt # Null

\* C15: no step changes the userId of a stored task, and a task enters the
\* store with the userId of the caller of the createTask that made it; so
\* every stored task keeps its creator's id through updateTask (whatever the
\* patch), completeTask and bulkUpdateStatus.
C15_OwnerNeverChanges ==
  [][\A id \in DOMAIN tasks' :
       IF id \in DOMAIN tasks
       THEN tasks'[id].userId = tasks[id].userId
       ELSE /\ last'.op = "createTask" /\ last'.target = id
            /\ tasks'[id].userId = last'.userId]_vars

\* an updateTask whose body named user 1 as owner has saved user 2's task
C15_Witness ==
  /\ last.op = "updateTask" /\ last.step = "save"
  /\ last.userId = 2
  /\ Has(last.input, "userId") /\ last.input.userId = 1
  /\ tasks[last.target].userId = 2
  /\ tasks[last.target].title = <<"U">>

\* the step is completeTask's load of a task the caller owns
CompleteLoads(id) ==
  /\ last'.op = "completeTask" /\ last'.step = "load"
  /\ last'.target = id
  /\ getTaskByIdFound(tasks, last'.userId, id)

\* C16: completeTask on a task that is already completed answers 400 'already
\* completed' and changes nothing; on a pending or in_progress task it goes
\* on to its save, which stores status completed with completedAt set and
\* answers with success.
C16_CompleteOnceThenRefuse ==
  [][/\ \A id \in DOMAIN tasks :
          CompleteLoads(id) =>
            IF tasks[id].status = COMPLETED
            THEN /\ last'.resp.status = HttpStatus.BAD_REQUEST
                 /\ Includes(last'.resp.message, <<"already", "completed">>)
                 /\ tasks' = tasks /\ reqs' = reqs
            ELSE /\ last'.resp = NoResp
                 /\ \E r \in Slots : reqs'[r].op = "completeTask" /\ reqs'[r].task.id = id
     /\ (last'.op = "completeTask" /\ last'.step = "save") =>
          /\ last'.resp.success /\ last'.resp.status = HttpStatus.OK
          /\ tasks'[last'.target].status = COMPLETED
          /\ tasks'[last'.target].completedAt # Null
          /\ last'.resp.data = tasks'[last'.target]]_vars

\* the second of two completeTask calls on a task has been refused
C16_Witness ==
  /\ last.op = "completeTask" /\ last.step = "load"
  /\ last.resp.status = HttpStatus.BAD_REQUEST
  /\ tasks[last.target].status = COMPLETED
  /\ tasks[last.target].completedAt # Null

\* C17: a task that deleteTask removed is never stored again and getTaskById
\* never returns it again, also when an updateTask or completeTask that had
\* loaded it saves after the delete; and the delete leaves every other task
\* as it was.
C17_DeletedStaysDeleted ==
  [][/\ \A id \in 1..taskSeq :
          id \notin DOMAIN tasks =>
            /\ id \notin DOMAIN tasks'
            /\ \A u \in Callers : getTaskByIdResponse(tasks', u, id) = TaskNotFound
     /\ (last'.op = "deleteTask" /\ last'.step = "remove") =>
          \A id \in DOMAIN tasks \ {last'.target} :
            id \in DOMAIN tasks' /\ tasks'[id] = tasks[id]]_vars

\* the last step is the answer of getTasks to a query the schema accepted
GetTasksAnswered == last.op = "getTasks" /\ last.step = "query"

\* the smallest number of pages of `limit` rows that hold `total` rows
PagesNeeded(total, limit) == CHOOSE k \in 0..total : k * limit >= total /\ (k = 0 \/ (k - 1) * limit < total)

Max(a, b) == IF a >= b THEN a ELSE b

\* C18: for a query without filters, getTasks answers with success,
\* meta.total = the number of the caller's tasks, meta.totalPages =
\* ceil(total / limit), and exactly min(limit, max(0, total - (page-1)*limit))
\* tasks; a page beyond the last is an empty list, not an error.
C18_PaginationCounts ==
  GetTasksAnswered =>
    LET f == taskFiltersSchemaValue(last.input)
        total == Cardinality({i \in DOMAIN tasks : tasks[i].userId = last.userId})
        result == last.resp.data
    IN /\ last.resp.success /\ last.resp.status = HttpStatus.OK
       /\ result.meta.total = total
       /\ result.meta.totalPages = PagesNeeded(total, f.limit)
       /\ Len(result.tasks) = Min(f.limit, Max(0, total - (f.page - 1) * f.limit))

\* 25 tasks, limit 10: page 4 is empty and totalPages is 3
C18_Witness ==
  /\ GetTasksAnswered
  /\ last.resp.data.meta = [page |-> 4, limit |-> 10, total |-> 25, totalPages |-> 3]
  /\ last.resp.data.tasks = <<>>

\* `search` occurs in `text` when case is ignored
ContainsIgnoringCase(text, search) ==
  /\ text # NullText
  /\ \E i \in 1..(Len(text) + 1) :
       /\ i + Len(search) - 1 <= Len(text)
       /\ SubSeq(toLowerCase(text), i, i + Len(search) - 1) = toLowerCase(search)

\* the stored tasks that are the caller's and meet every supplied filter
ExpectedTasks(userId, f) ==
  {i \in DOMAIN tasks :
     /\ tasks[i].userId = userId
     /\ Has(f, "status") => tasks[i].status = f.status
     /\ Has(f, "priority") => tasks[i].priority = f.priority
     /\ Has(f, "dueDateFrom") => tasks[i].dueDate # Null /\ tasks[i].dueDate >= f.dueDateFrom
     /\ Has(f, "dueDateTo") => tasks[i].dueDate # Null /\ tasks[i].dueDate <= f.dueDateTo
     /\ Has(f, "search") => \/ ContainsIgnoringCase(tasks[i].title, f.search)
                            \/ ContainsIgnoringCase(tasks[i].description, f.search)}

\* C19: getTasks lists only tasks of the caller that meet every supplied
\* filter (search as a case-insensitive substring of title or description),
\* each as stored, and meta.total is the number of such tasks.
C19_FiltersSelectExactly ==
  GetTasksAnswered =>
    LET f == taskFiltersSchemaValue(last.input)
        listed == last.resp.data.tasks
        expected == ExpectedTasks(last.userId, f)
    IN /\ \A k \in DOMAIN listed :
            listed[k].id \in expected /\ listed[k] = tasks[listed[k].id]
       /\ last.resp.data.meta.total = Cardinality(expected)

BulkOps == {"bulkUpdateStatus", "bulkDeleteTasks"}

\* the successes a bulk request has counted so far
BulkCount(q) == IF q.op = "bulkUpdateStatus" THEN q.updated ELSE q.deleted

\* the counters of request r after a step: those it carries on, or those it
\* returned
BulkCountAfter(r, op) ==
  IF reqs'[r] # Idle THEN BulkCount(reqs'[r])
  ELSE IF op = "bulkUpdateStatus" THEN last'.resp.data.updated ELSE last'.resp.data.deleted

BulkFailedAfter(r) == IF reqs'[r] # Idle THEN reqs'[r].failed ELSE last'.resp.data.failed

\* one step of bulk request r
BulkStep(r) ==
  LET q == reqs[r]
      id == q.taskIds[q.i]
      found == getTaskByIdFound(tasks, q.userId, id)
      itemFails == q.pc = "load" /\ ~found
      itemEnds == itemFails \/ q.pc # "load"
  IN /\ (q.pc = "load" /\ found) =>
          \* the item goes on as updateTask / deleteTask would, nothing counted yet
          /\ tasks' = tasks
          /\ reqs'[r].i = q.i /\ BulkCount(reqs'[r]) = BulkCount(q) /\ reqs'[r].failed = q.failed
          /\ reqs'[r].task = IF q.op = "bulkUpdateStatus"
                              THEN applyUpdate(getTaskByIdTask(tasks, q.userId, id),
                                               [status |-> q.status], now)
                              ELSE getTaskByIdTask(tasks, q.userId, id)
     /\ itemFails => tasks' = tasks
     /\ q.pc = "save" => tasks' = TaskSave(tasks, q.task, now)
     /\ q.pc = "remove" => tasks' = TaskRemove(tasks, q.task.id)
     /\ itemEnds =>
          \* the item is counted once, as a success or as a failure, in order
          /\ BulkFailedAfter(r) = IF itemFails THEN Append(q.failed, id) ELSE q.failed
          /\ BulkCountAfter(r, q.op) = BulkCount(q) + (IF itemFails THEN 0 ELSE 1)
          /\ IF q.i < Len(q.taskIds)
             THEN reqs'[r].op = q.op /\ reqs'[r].i = q.i + 1 /\ reqs'[r].pc = "load"
                  /\ reqs'[r].taskIds = q.taskIds
             ELSE /\ reqs'[r] = Idle
                  /\ last'.op = q.op /\ last'.step = "done"
                  /\ BulkCountAfter(r, q.op) + Len(BulkFailedAfter(r)) = Len(q.taskIds)

\* C20: bulkUpdateStatus and bulkDeleteTasks take the ids in order, one at a
\* time, each as updateTask / deleteTask would; an id that fails is appended
\* to the failed list and the loop goes on with the next id; the returned
\* count plus the length of the failed list is the length of the input list.
C20_BulkIsBestEffort ==
  [][\A r \in Slots :
       (reqs[r].op \in BulkOps /\ reqs'[r] # reqs[r]) =>
         /\ BulkCount(reqs[r]) + Len(reqs[r].failed) = reqs[r].i - 1
         /\ BulkStep(r)]_vars

\* a bulkDeleteTasks has returned one success after one failure
C20_Witness ==
  /\ last.op = "bulkDeleteTasks" /\ last.step = "done"
  /\ last.resp.data.deleted = 1
  /\ Len(last.resp.data.failed) = 1
  /\ last.resp.data.failed[1] # last.target

----------------------------------------------------------------------------
\* Claims about refreshToken and the gate's responses (SpecGate)

\* a refresh token as the service issues them, unexpired, of a stored active user
ValidRefreshToken(token, store, clock) ==
  /\ token.jwt
  /\ token.sig = JWT_REFRESH_SECRET
  /\ token.iss = Issuer /\ token.aud = Audience
  /\ clock < token.exp
  /\ token.userId \in DOMAIN store
  /\ store[token.userId].isActive

\* C21: refreshToken answers a valid, unexpired refresh token of a stored
\* active user with an access token and a refresh token issued now for that
\* user; it answers every other token with the AuthenticationError (401);
\* and it changes no state.
C21_RefreshReissuesBoth ==
  [][(last'.op = "refreshToken" /\ now' = now) =>
       LET token == last'.input IN
       /\ users' = users /\ tasks' = tasks /\ reqs' = reqs
       /\ IF ValidRefreshToken(token, users, now)
          THEN /\ last'.resp.status = HttpStatus.OK
               /\ last'.resp.data.token = generateAccessToken(users[token.userId], now)
               /\ last'.resp.data.refreshToken = generateRefreshToken(users[token.userId], now)
          ELSE /\ last'.resp = InvalidRefreshToken
               /\ last'.resp.status = HttpStatus.UNAUTHORIZED]_vars

\* C22: the gate's refusals are indistinguishable: the 401 it has just sent
\* is, in status, error code and message, the response it gives to every other
\* header it refuses in the same state (no header, a malformed token, an
\* expired token, a token of a deactivated user, a token of no stored user).
C22_GateRefusalsAreUniform ==
  (last.op = "authenticate" /\ last.resp.status = HttpStatus.UNAUTHORIZED) =>
    \A h \in HeaderInputs(users, now) :
      authenticateResponse(users, h, now, TRUE) \in {NoResp, last.resp}

----------------------------------------------------------------------------
\* Claims about createTask (SpecTasks)

\* C25: createTask for a userId with no user record answers NotFound and
\* persists nothing, then or later; for a stored user its save adds exactly one
\* task, owned by that userId, with status pending when the request gives no
\* status and priority medium when it gives no priority, and changes no
\* existing task.
C25_CreateTaskAddsOne ==
  [][/\ (last'.op = "createTask" /\ last'.step = "findUser") =>
          /\ tasks' = tasks
          /\ IF last'.userId \in DOMAIN users
             THEN last'.resp = NoResp
             ELSE /\ last'.resp = errorHandler(createNotFoundError("User"))
                  /\ last'.resp.status = HttpStatus.NOT_FOUND
                  /\ last'.resp.error = ErrorCodes.NOT_FOUND
                  /\ reqs' = reqs
     /\ (last'.op = "createTask" /\ last'.step = "save") =>
          LET id == last'.target
              taskData == last'.input IN
          /\ last'.userId \in DOMAIN users
          /\ id \notin DOMAIN tasks
          /\ DOMAIN tasks' = DOMAIN tasks \cup {id}
          /\ \A t \in DOMAIN tasks : tasks'[t] = tasks[t]
          /\ tasks'[id].userId = last'.userId
          /\ tasks'[id].title = taskData.title
          /\ tasks'[id].status = IF Has(taskData, "status") THEN taskData.status ELSE PENDING
          /\ tasks'[id].priority =
               IF Has(taskData, "priority") THEN taskData.priority ELSE MEDIUM
          /\ last'.resp.status = HttpStatus.CREATED
          /\ last'.resp.data = tasks'[id]]_vars

\* C25's case: a second task has been created, with neither status nor
\* priority in the request, beside a task of another account
C25_Witness ==
  /\ last.op = "createTask" /\ last.step = "save"
  /\ ~Has(last.input, "status") /\ ~Has(last.input, "priority")
  /\ last.target \in DOMAIN tasks
  /\ tasks[last.target].status = PENDING /\ tasks[last.target].priority = MEDIUM
  /\ \E t \in DOMAIN tasks : tasks[t].userId # last.userId

----------------------------------------------------------------------------
\* Claims about concurrent signups (SpecAuth)

\* C26: however signups interleave, no two stored users have the same email;
\* an insert for an email that another signup has stored since this one's
\* existence check is refused with 409 DUPLICATE_RESOURCE and stores nothing;
\* an insert that is not refused adds one user; and the signup that is
\* answered 201 is the one whose user holds the email.
C26_ConcurrentSignupsOneWins ==
  [][/\ \A u, v \in DOMAIN users' :
          SameEmailIgnoringCase(users'[u].email, users'[v].email) => u = v
     /\ (last'.op = "signup" /\ last'.step = "insert") =>
          IF EmailStored(users, last'.input.email)
          THEN /\ last'.resp.status = HttpStatus.CONFLICT
               /\ last'.resp.error = ErrorCodes.DUPLICATE_RESOURCE
               /\ users' = users
               /\ Cardinality({r \in Slots : reqs'[r].op = "signup"})
                    = Cardinality({r \in Slots : reqs[r].op = "signup"}) - 1
          ELSE /\ last'.resp = NoResp
               /\ DOMAIN users' = DOMAIN users \cup {last'.userId}
               /\ last'.userId \notin DOMAIN users
               /\ \A u \in DOMAIN users : users'[u] = users[u]
     /\ (last'.op = "signup" /\ last'.step = "save") =>
          /\ last'.resp.status = HttpStatus.CREATED
          /\ last'.resp.data.user.id = last'.userId
          /\ last'.userId \in DOMAIN users
          /\ SameEmailIgnoringCase(users'[last'.userId].email, last'.input.email)
          /\ last'.resp.data.user.email = users'[last'.userId].email]_vars

\* C26's case: two signups for one email had both passed the existence check;
\* one has stored its user and is not yet answered, the other's insert has
\* just been refused
C26_Witness ==
  /\ last.op = "signup" /\ last.step = "insert"
  /\ last.resp.status = HttpStatus.CONFLICT
  /\ \E r \in Slots :
       /\ reqs[r].op = "signup" /\ reqs[r].pc = "save"
       /\ SameEmailIgnoringCase(reqs[r].user.email, last.input.email)
  /\ Cardinality({u \in DOMAIN users :
                    SameEmailIgnoringCase(users[u].email, last.input.email)}) = 1

----------------------------------------------------------------------------
\* Claims about concurrent updates (SpecSaveRace)

\* request r is at the UPDATE of its save
UpdateWrites(r) ==
  reqs[r].op = "updateTask" /\ Has(reqs[r], "databaseEntity") /\ reqs'[r] = Idle

\* C27: every updateTask that finds the task is answered 200, whatever other
\* update runs beside it; after each save the stored task is the record that
\* save wrote, the one its response carries; and every stored task, at every
\* step, has completedAt non-null exactly when its status is completed.
C27_LastWriteWins ==
  [][/\ \A r \in Slots :
          UpdateWrites(r) =>
            /\ last'.resp.status = HttpStatus.OK
            /\ \A c \in TaskColumns :
                 tasks'[reqs[r].task.id][c] = last'.resp.data[c]
     /\ \A t \in DOMAIN tasks' :
          (tasks'[t].completedAt # Null) <=> (tasks'[t].status = COMPLETED)]_vars

----------------------------------------------------------------------------
\* Claims about what updateTask leaves alone (SpecTasks)

\* C28: the save of an updateTask leaves unchanged every column of the task
\* that the patch does not name, apart from updatedAt, and apart from
\* completedAt when the patch names status; so a patch without status leaves
\* status and completedAt as they were.
C28_UpdateLeavesTheRest ==
  [][(last'.op = "updateTask" /\ last'.step = "save") =>
       LET id == last'.target
           patch == taskUpdateSchemaValue(last'.input) IN
       /\ id \in DOMAIN tasks /\ id \in DOMAIN tasks'
       /\ \A c \in DOMAIN tasks[id] \ {"updatedAt"} :
            (~Has(patch, c) /\ ~(c = "completedAt" /\ Has(patch, "status")))
              => tasks'[id][c] = tasks[id][c]]_vars

----------------------------------------------------------------------------
\* Claims about what the routes leave alone in a user (SpecProfiles)

\* C29: one request at a time, every step keeps the role, the email and the
\* password of every stored user; a user enters the store with role user and
\* isActive true; and the save of PUT /users/me changes, in the caller's row,
\* firstName, lastName and updatedAt alone, and no other row, whatever the
\* body names.
C29_RoleEmailPasswordAreFixed ==
  [][/\ \A u \in DOMAIN users :
          /\ u \in DOMAIN users'
          /\ users'[u].role = users[u].role
          /\ users'[u].email = users[u].email
          /\ users'[u].password = users[u].password
     /\ \A u \in DOMAIN users' \ DOMAIN users :
          /\ users'[u].role = USER /\ users'[u].isActive = TRUE
          /\ last'.op = "signup"
     /\ (last'.op = "updateProfile" /\ last'.step = "save") =>
          \A u \in DOMAIN users :
            \A c \in DOMAIN users[u] :
              users'[u][c] # users[u][c] =>
                /\ u = last'.target
                /\ c \in {"firstName", "lastName", "updatedAt"}]_vars

\* C29's case: a PUT /users/me whose body names role, email, password and
\* isActive beside firstName has been saved for an account whose password is
\* stored as submitted
C29_Witness ==
  /\ last.op = "updateProfile" /\ last.step = "save"
  /\ Has(last.input, "role") /\ last.input.role = ADMIN
  /\ last.resp.status = HttpStatus.OK
  /\ users[last.target].firstName = <<"K">>
  /\ users[last.target].role = USER
  /\ users[last.target].password = HashLikePassword

----------------------------------------------------------------------------
\* Claims about the response to every request (SpecRoutesFair)

\* the requests that this step ends
Ended == {r \in Slots : reqs[r] # Idle /\ reqs'[r] = Idle}

\* a response is sent in the step that ends a request, or in the one step of a
\* request that is answered before its first awaited call, and in no other
ResponseIffEnd ==
  IF last'.resp = NoResp
  THEN Ended = {} /\ reqs' # reqs
  ELSE \/ reqs' = reqs
       \/ /\ Cardinality(Ended) = 1
          /\ \A r \in Slots \ Ended : reqs'[r] = reqs[r]

\* C30: when every awaited call returns, every request in flight is
\* eventually ended, and a request is ended by the one step that sends its
\* response: no step sends a response and leaves the request running, none
\* ends a request without a response.
C30_EveryRequestAnsweredOnce ==
  /\ [][ResponseIffEnd]_vars
  /\ \A r \in Slots : (reqs[r] # Idle) ~> (reqs[r] = Idle)

\* C30's case: a request that waited for two queries has been answered while
\* another request is still waiting
C30_Witness ==
  /\ last.op = "updateProfile" /\ last.step = "save"
  /\ last.resp.status = HttpStatus.OK
  /\ \E r \in Slots : reqs[r] # Idle

----------------------------------------------------------------------------
\* The error handler applied to the errors the layers below it throw (SpecErrors)

\* next(error): express hands the error to errorHandler, which sends the response
handleError(error) ==
  /\ last' = LastRequest("errorHandler", error.name, Null, [error |-> error],
                         errorHandler(error))
  /\ UNCHANGED <<users, tasks, now, reqs, taskSeq>>

ErrorMessages ==
  { <<"Task", "is", "already", "completed">>, <<"Invalid", "refresh", "token">>,
    <<"Account", "is", "deactivated">>, <<"Access", "denied">>,
    <<"Invalid", "email", "or", "password">>, <<"Invalid", "token">>,
    <<"title", "is", "required">>, <<"Something", "went", "wrong">> }

ErrorResources == {"Task", "User", "Resource"}

ErrorStatuses == {HttpStatus[k] : k \in DOMAIN HttpStatus} \ {HttpStatus.OK, HttpStatus.CREATED}

\* typed errors as the services build them: the factories, and new AppError
\* with a message and a status, whose error code is the constructor's default
AppErrors ==
  {createNotFoundError(x) : x \in ErrorResources}
    \cup {createDuplicateResourceError(<<x>>) : x \in ErrorResources}
    \cup {createValidationError(m) : m \in ErrorMessages}
    \cup {createAuthenticationError(m) : m \in ErrorMessages}
    \cup {createAuthorizationError(m) : m \in ErrorMessages}
    \cup {AppError(m, st, ErrorCodes.INTERNAL_ERROR) : m \in ErrorMessages, st \in ErrorStatuses}

\* failures of the persistence layer: the three constraint violations, and
\* failures that are no constraint violation
DeadlockMsg == <<"deadlock", "detected">>
TimeoutMsg  == <<"canceling", "statement", "due", "to", "statement", "timeout">>

QueryFailedErrors ==
  {QueryFailedError(m) : m \in {UniqueViolationMsg, ForeignKeyMsg, NotNullViolationMsg,
                                DeadlockMsg, TimeoutMsg}}

UntypedErrors ==
  {PlainError(m) : m \in ErrorMessages \cup {<<"Task", "not", "found">>, <<>>}}
    \cup {SystemError(c) : c \in {"ECONNREFUSED", "ENOTFOUND"}}

ErrorInputs == AppErrors \cup QueryFailedErrors \cup UntypedErrors

NextErrors == \E error \in ErrorInputs : handleError(error)

SpecErrors == Init /\ [][NextErrors]_vars

Handled(name) == last.op = "errorHandler" /\ last.input.error.name = name

\* C23: the error handler answers a unique violation with 409
\* DUPLICATE_RESOURCE, a foreign-key violation with 404 NOT_FOUND, a not-null
\* violation with 422 VALIDATION_ERROR, and every other failed query with
\* DATABASE_ERROR and status 500 or 503.
C23_ConstraintViolationsMapped ==
  Handled("QueryFailedError") =>
    LET message == last.input.error.message
        resp == last.resp IN
    CASE message = UniqueViolationMsg ->
           resp.status = HttpStatus.CONFLICT /\ resp.error = ErrorCodes.DUPLICATE_RESOURCE
      [] message = ForeignKeyMsg ->
           resp.status = HttpStatus.NOT_FOUND /\ resp.error = ErrorCodes.NOT_FOUND
      [] message = NotNullViolationMsg ->
           /\ resp.status = HttpStatus.UNPROCESSABLE_ENTITY
           /\ resp.error = ErrorCodes.VALIDATION_ERROR
      [] OTHER ->
           /\ resp.error = ErrorCodes.DATABASE_ERROR
           /\ resp.status \in {HttpStatus.INTERNAL_SERVER_ERROR,
                                HttpStatus.SERVICE_UNAVAILABLE}

\* C24: the response to a typed error carries the status and the error code
\* the error carries.
C24_TypedErrorKeepsItsCode ==
  Handled("AppError") =>
    /\ last.resp.status = last.input.error.statusCode
    /\ last.resp.error = last.input.error.errorCode

====
